---- MODULE Spec2Model ----
(***************************************************************************)
(* Verification model of the hash-table library (modern_hashing).          *)
(*                                                                         *)
(* Every table variant is a state machine of its own: its variables, its   *)
(* Init (the state the constructor leaves) and one action per public       *)
(* operation.  A specification per variant (SpecLP, SpecPerfect, ...) runs *)
(* that variant and leaves the variables of the others at rest.            *)
(*                                                                         *)
(* Keys are small non-negative integers.  std::hash of an integral key is  *)
(* the identity in libstdc++ and libc++, which is what StdHash models.     *)
(* A vector of n elements is a sequence of length n; the model keeps the   *)
(* 0-based indices of the source and reads element i as t[i + 1].          *)
(***************************************************************************)
EXTENDS Integers, Sequences, FiniteSets, TLC

VARIABLES
    \* linear-probing table (Baseline1 / DynamicResizing)
    table, count, lpLast,
    \* two-level perfect-hashing table (PerfectHash)
    buckets, size_, phLast,
    \* funnel table (FunnelHash)
    slots_, occupied_, total_size_, inserts_done_, alpha_, fnLast,
    \* the values of FunnelHash's hash functions on the keys of the model
    hashes,
    \* iceberg table (IcebergHash); domainIB: the keys the calls of this run
    \* use; modelIB: the key-value map the calls so far describe
    capacity_blocks, size, level1, level2, level3, ibLast, domainIB, modelIB,
    \* partitioned table without index (SlowPartitionHashTable): buckets_, size_
    bucketsSP, sizeSP, spLast,
    \* partitioned table with index (IndexedPartitionHashTable): buckets_, size_
    bucketsIP, sizeIP, ipLast,
    \* cuckoo table (CuckooHash): capacity_, size_, table1, table2; modelCK: the key-value map the calls so far describe
    capacityCK, sizeCK, table1, table2, modelCK, ckLast,
    \* multi-level elastic table (ElasticHash of levels): capacity, inserted, sizes, tables, occupied_counts; mixesEM: the probe mixes of the keys of the model
    capacityEM, insertedEM, sizesEM, tablesEM, countsEM, mixesEM, emLast,
    \* linear-probing elastic table (ElasticHash of include/elastic.h): capacity_, size_, table; modelEL: the key-value map the calls so far describe
    capacityEL, sizeEL, tableEL, modelEL, elLast,
    \* FixedListChainedHashTable: capacity_, size_, table; the map the calls describe; the last call
    capacityCH, sizeCH, tableCH, modelCH, chLast,
    \* a call of the constructor FunnelHash(n, delta) and its outcome
    ctorFN,
    \* a call of the constructor IndexedPartitionHashTable(n) and its outcome
    ctorIP

lpVars == <<table, count, lpLast>>
phVars == <<buckets, size_, phLast>>
fnVars == <<slots_, occupied_, total_size_, inserts_done_, alpha_, fnLast, hashes>>
ibVars == <<capacity_blocks, size, level1, level2, level3, ibLast, domainIB,
            modelIB>>
spVars == <<bucketsSP, sizeSP, spLast>>
ipVars == <<bucketsIP, sizeIP, ipLast>>
ckVars == <<capacityCK, sizeCK, table1, table2, modelCK, ckLast>>
emVars == <<capacityEM, insertedEM, sizesEM, tablesEM, countsEM, mixesEM, emLast>>
elVars == <<capacityEL, sizeEL, tableEL, modelEL, elLast>>
chVars == <<capacityCH, sizeCH, tableCH, modelCH, chLast>>
fcVars == <<ctorFN>>
pcVars == <<ctorIP>>
vars == <<lpVars, phVars, fnVars, ibVars, spVars, ipVars, ckVars,
          emVars, elVars, chVars, fcVars, pcVars>>

\* the variables a variant's specification leaves at rest
NotLP == <<phVars, fnVars, ibVars, spVars, ipVars, ckVars, emVars,
           elVars, chVars, fcVars, pcVars>>
NotPH == <<lpVars, fnVars, ibVars, spVars, ipVars, ckVars, emVars,
           elVars, chVars, fcVars, pcVars>>
NotFN == <<lpVars, phVars, ibVars, spVars, ipVars, ckVars, emVars,
           elVars, chVars, fcVars, pcVars>>
NotIB == <<lpVars, phVars, fnVars, spVars, ipVars, ckVars, emVars,
           elVars, chVars, fcVars, pcVars>>
NotSP == <<lpVars, phVars, fnVars, ibVars, ipVars, ckVars, emVars,
           elVars, chVars, fcVars, pcVars>>
NotIP == <<lpVars, phVars, fnVars, ibVars, spVars, ckVars, emVars,
           elVars, chVars, fcVars, pcVars>>
NotCK == <<lpVars, phVars, fnVars, ibVars, spVars, ipVars, emVars,
           elVars, chVars, fcVars, pcVars>>
NotEM == <<lpVars, phVars, fnVars, ibVars, spVars, ipVars, ckVars,
           elVars, chVars, fcVars, pcVars>>
NotEL == <<lpVars, phVars, fnVars, ibVars, spVars, ipVars, ckVars,
           emVars, chVars, fcVars, pcVars>>
NotCH == <<lpVars, phVars, fnVars, ibVars, spVars, ipVars, ckVars,
           emVars, elVars, fcVars, pcVars>>
NotFC == <<lpVars, phVars, fnVars, ibVars, spVars, ipVars, ckVars,
           emVars, elVars, chVars, pcVars>>
NotPC == <<lpVars, phVars, fnVars, ibVars, spVars, ipVars, ckVars,
           emVars, elVars, chVars, fcVars>>

(***************************************************************************)
(* Bounds of the model.                                                    *)
(***************************************************************************)
\* keys offered to the linear-probing table are 0..MaxKeyLP
MaxKeyLP == 4
\* initialCapacity of the linear-probing table is drawn from 1..MaxInitCapLP
MaxInitCapLP == 4
\* an insert that would grow the linear-probing table beyond this many slots is not offered
MaxCapLP == 8
\* values are 1..MaxValue
MaxValue == 2
\* keys offered to the perfect-hashing table are 0..MaxKeyPH
MaxKeyPH == 4
\* the top-level bucket count of the perfect-hashing table is drawn from 1..MaxBucketsPH
MaxBucketsPH == 2
\* an insert that would take PerfectHash::size_ beyond this is not offered
MaxSizePH == 4
\* keys offered to the funnel table are 0..MaxKeyFN
MaxKeyFN == 2
\* the capacity n given to the FunnelHash constructor is drawn from 1..MaxInitFN
MaxInitFN == 4
\* an insert or update that would grow FunnelHash::total_size_ beyond this is not offered
MaxTotalFN == 8
\* keys offered to the iceberg table in the runs with legitimate keys are
\* 1..MaxKeyIB
MaxKeyIB == 3
\* keys offered to the iceberg table in the runs with the whole key type are
\* 0..MaxKey0IB
MaxKey0IB == 2
\* a Level-1 block of the model has 2^SLOT_BITS slots (the source: 2^6)
SLOT_BITS == 0
\* a Level-2 block of the model has LV2_SLOTS slots (the source: 8)
LV2_SLOTS == 1
\* init_blocks of the iceberg table is drawn from 1..MaxInitBlocksIB
MaxInitBlocksIB == 2
\* an insert or modify that would grow the iceberg table beyond this many
\* blocks is not offered
MaxBlocksIB == 2
\* an insert or modify that would make a Level-3 list longer than this is not
\* offered
MaxListIB == 2
\* a remove that would take the wrapped size below 2^64 - MaxWrapIB is not
\* offered
MaxWrapIB == 1
\* keys offered to the partitioned table are 0..MaxKeySP
MaxKeySP == 2
\* buckets of the partitioned table (the source: N / ln(N)^3, truncated)
NUM_BUCKETS == 2
\* entries per bucket of the partitioned table (the source:
\* ln(N)^3 + 2 ln(N)^2, truncated)
BUCKET_CAPACITY == 3

\* keys offered to the indexed partitioned table are 0..MaxKeyIP, and
\* 2^12 + k for k in 0..MaxAliasIP, whose fingerprint is that of k
MaxKeyIP == 3
MaxAliasIP == 0
\* buckets of the indexed partitioned table (the source: n / ln(n)^3,
\* truncated)
NumBucketsIP == 2
\* entries per bucket of the indexed partitioned table (the source:
\* ln(n)^3 + c ln(n)^2, truncated)
BucketCapacityIP == 2
\* the remove runs take a table of WideCapacityIP entries per bucket and the
\* keys NumBucketsIP * k for k in 0..MaxWideKeyIP, which share bucket 0
WideCapacityIP == 4
MaxWideKeyIP == 2
\* keys offered to the cuckoo table are high * 2^16 + 2 * low with high in
\* 0..MaxHighCK and low in 0..MaxLowCK
MaxHighCK == 1
MaxLowCK == 1
\* initial_capacity of the cuckoo table is drawn from 1..MaxInitCapCK
MaxInitCapCK == 2
\* an insert that would grow the cuckoo table beyond this capacity is not
\* offered
MaxCapCK == 4
\* a rehash beyond this capacity is not modelled: the call is abandoned
CapLimitCK == 4 * MaxCapCK
\* keys offered to the multi-level elastic table are 0..MaxKeyEM
MaxKeyEM == 2
\* initial_capacity of the multi-level elastic table is drawn from
\* 1..MaxInitCapEM
MaxInitCapEM == 6
\* an insert that would grow the multi-level elastic table beyond this
\* capacity is not offered
MaxCapEM == 6
\* delta_thresh of the multi-level elastic table is DeltaNumEM / DeltaDenEM
\* (the source's default: 0.1)
DeltaNumEM == 4
DeltaDenEM == 5
\* the probe positions are tabulated for the tables of up to this capacity
CapLimitEM == 4 * MaxCapEM
\* keys offered to the linear-probing elastic table are 0..MaxKeyEL
MaxKeyEL == 3
\* initial_capacity of the linear-probing elastic table is drawn from
\* 1..MaxInitCapEL
MaxInitCapEL == 3
\* an insert that would grow the linear-probing elastic table beyond this
\* capacity is not offered
MaxCapEL == 6
\* keys offered to the chained table are 0..MaxKeyCH
MaxKeyCH == 2
\* capacity of the chained table is drawn from 1..MaxCapCH
MaxCapCH == 3
\* the constructor of the Funnel table is called with n in 1..MaxCtorFN
MaxCtorFN == 20
\* the constructor of the indexed partitioned table is called with n in
\* 2..MaxCtorIP
MaxCtorIP == 24

Values == 1..MaxValue
Absent == 0    \* std::nullopt: no stored value is 0

\* std::hash<K> of an integral key
StdHash(key) == key

(***************************************************************************)
(* 64-bit unsigned arithmetic (uint64_t), for the hash mixers.  A word is   *)
(* its 8 bytes, least significant first; every operation is modulo 2^64.   *)
(***************************************************************************)
\* uint64_t(n) of a small non-negative n
Word(n) ==
    <<n % 256, (n \div 256) % 256, (n \div 65536) % 256,
      (n \div 16777216) % 256, 0, 0, 0, 0>>

\* a ^ b on w-bit operands
RECURSIVE XorInt(_, _, _)
XorInt(a, b, w) ==
    IF w = 0 THEN 0
    ELSE ((a + b) % 2) + 2 * XorInt(a \div 2, b \div 2, w - 1)

RECURSIVE Pow(_, _)
Pow(b, e) == IF e = 0 THEN 1 ELSE b * Pow(b, e - 1)

\* byte i of a word, 0 beyond its top
ByteOf(a, i) == IF i >= 0 /\ i <= 7 THEN a[i + 1] ELSE 0

\* a ^ b
Xor64(a, b) ==
    <<XorInt(a[1], b[1], 8), XorInt(a[2], b[2], 8), XorInt(a[3], b[3], 8),
      XorInt(a[4], b[4], 8), XorInt(a[5], b[5], 8), XorInt(a[6], b[6], 8),
      XorInt(a[7], b[7], 8), XorInt(a[8], b[8], 8)>>

\* byte i of a >> (8 * q + r)
ShrByte(a, i, q, r) ==
    (ByteOf(a, i + q) \div Pow(2, r))
        + (ByteOf(a, i + q + 1) % Pow(2, r)) * Pow(2, 8 - r)

\* a >> n
Shr64(a, n) ==
    LET q == n \div 8
        r == n % 8
    IN  <<ShrByte(a, 0, q, r), ShrByte(a, 1, q, r), ShrByte(a, 2, q, r),
          ShrByte(a, 3, q, r), ShrByte(a, 4, q, r), ShrByte(a, 5, q, r),
          ShrByte(a, 6, q, r), ShrByte(a, 7, q, r)>>

\* the word of the column sums c[1..8]: carries propagated, the carry out of
\* the top byte dropped
RECURSIVE Carry64(_, _, _)
Carry64(c, i, carry) ==
    IF i > 8 THEN <<>>
    ELSE <<(c[i] + carry) % 256>> \o Carry64(c, i + 1, (c[i] + carry) \div 256)

\* a + b
Add64(a, b) ==
    Carry64(<<a[1] + b[1], a[2] + b[2], a[3] + b[3], a[4] + b[4],
              a[5] + b[5], a[6] + b[6], a[7] + b[7], a[8] + b[8]>>, 1, 0)

\* column k of the schoolbook product
RECURSIVE MulCol(_, _, _, _)
MulCol(a, b, k, i) ==
    IF i > k THEN 0 ELSE a[i + 1] * b[k - i + 1] + MulCol(a, b, k, i + 1)

\* a * b
Mul64(a, b) ==
    Carry64(<<MulCol(a, b, 0, 0), MulCol(a, b, 1, 0), MulCol(a, b, 2, 0),
              MulCol(a, b, 3, 0), MulCol(a, b, 4, 0), MulCol(a, b, 5, 0),
              MulCol(a, b, 6, 0), MulCol(a, b, 7, 0)>>, 1, 0)

\* a % n for a small positive n
RECURSIVE ModFrom64(_, _, _, _)
ModFrom64(a, n, i, r) ==
    IF i = 0 THEN r ELSE ModFrom64(a, n, i - 1, (256 * r + a[i]) % n)

Mod64(a, n) == ModFrom64(a, n, 8, 0)

\* a <= b
RECURSIVE LeqFrom64(_, _, _)
LeqFrom64(a, b, i) ==
    IF i = 0 THEN TRUE
    ELSE IF a[i] # b[i] THEN a[i] < b[i]
    ELSE LeqFrom64(a, b, i - 1)

Leq64(a, b) == LeqFrom64(a, b, 8)

\* a - b
Sub64(a, b) ==
    Add64(a, Add64(<<255 - b[1], 255 - b[2], 255 - b[3], 255 - b[4],
                     255 - b[5], 255 - b[6], 255 - b[7], 255 - b[8]>>, Word(1)))

\* acc * b^e as a word
RECURSIVE PowFrom64(_, _, _)
PowFrom64(b, e, acc) ==
    IF e = 0 \/ Len(acc) # 8 THEN acc
    ELSE PowFrom64(b, e - 1, Mul64(Word(b), acc))

\* b^e as a word
Pow64(b, e) == PowFrom64(b, e, Word(1))

\* 0x9e3779b97f4a7c15
GOLDEN == <<21, 124, 74, 127, 185, 121, 55, 158>>
\* 0xbf58476d1ce4e5b9
MIX1 == <<185, 229, 228, 28, 109, 71, 88, 191>>
\* 0x94d049bb133111eb
MIX2 == <<235, 17, 49, 19, 187, 73, 208, 148>>

\* x ^ (x >> s)
XorShift64(x, s) == Xor64(x, Shr64(x, s))

\* splitmix64(x)
splitmix64(x) ==
    XorShift64(Mul64(XorShift64(Mul64(XorShift64(Add64(x, GOLDEN), 30), MIX1),
                                27), MIX2), 31)

(***************************************************************************)
(* Linear-probing table: Baseline1 / DynamicResizing.                      *)
(***************************************************************************)
KeysLP == 0..MaxKeyLP

\* Slot{}: value-initialised key and value, state EMPTY
EmptySlotLP == [key |-> 0, value |-> 0, state |-> "EMPTY"]

\* table.resize(n) on an empty vector
NewTableLP(n) == [i \in 1..n |-> EmptySlotLP]

CapLP(t) == Len(t)

\* hash(key) = std::hash<K>{}(key) % table.size()
HashLP(t, key) == StdHash(key) % CapLP(t)

\* a load check that never asks for a resize
NeverOverLoadLP(t, c) == FALSE

\* (float)(count + 1) / table.size() > 0.6f
OverLoadLP(t, c) == (c + 1) * 5 > CapLP(t) * 3

\* the while loop of insert: from idx, the first slot that is not OCCUPIED, or
\* the slot that holds key, or -1 when the probe is back at start
RECURSIVE InsertScanLP(_, _, _, _)
InsertScanLP(t, key, idx, start) ==
    IF t[idx + 1].state # "OCCUPIED" THEN idx
    ELSE IF t[idx + 1].key = key THEN idx
    ELSE LET nxt == (idx + 1) % CapLP(t)
         IN  IF nxt = start THEN -1 ELSE InsertScanLP(t, key, nxt, start)

\* the while loop of lookup / update / remove: the slot that holds key as
\* OCCUPIED, or -1 at the first EMPTY slot or when the probe is back at start
RECURSIVE FindScanLP(_, _, _, _)
FindScanLP(t, key, idx, start) ==
    IF t[idx + 1].state = "EMPTY" THEN -1
    ELSE IF t[idx + 1].state = "OCCUPIED" /\ t[idx + 1].key = key THEN idx
    ELSE LET nxt == (idx + 1) % CapLP(t)
         IN  IF nxt = start THEN -1 ELSE FindScanLP(t, key, nxt, start)

\* a probe that also stops at a DELETED slot
RECURSIVE FindScanStopLP(_, _, _, _)
FindScanStopLP(t, key, idx, start) ==
    IF t[idx + 1].state = "EMPTY" \/ t[idx + 1].state = "DELETED" THEN -1
    ELSE IF t[idx + 1].key = key THEN idx
    ELSE LET nxt == (idx + 1) % CapLP(t)
         IN  IF nxt = start THEN -1 ELSE FindScanStopLP(t, key, nxt, start)

FindStopLP(t, key) == FindScanStopLP(t, key, HashLP(t, key), HashLP(t, key))

FindLP(t, key) == FindScanLP(t, key, HashLP(t, key), HashLP(t, key))

\* insert after its load check: overwrite, give up, or occupy
PlaceLP(st, key, value) ==
    LET t == st.table
        idx == InsertScanLP(t, key, HashLP(t, key), HashLP(t, key))
    IN  IF idx = -1 THEN st
        ELSE IF t[idx + 1].state = "OCCUPIED"
        THEN [st EXCEPT !.table[idx + 1].value = value]
        ELSE [table |-> [t EXCEPT ![idx + 1] = [key |-> key, value |-> value,
                                            state |-> "OCCUPIED"]],
              count |-> st.count + 1]

RECURSIVE InsertLP(_, _, _)
RECURSIVE ReinsertLP(_, _, _)

\* resize(): a table of twice the size, count = 0, every OCCUPIED slot of the
\* old table inserted again in index order
ResizeLP(st) ==
    ReinsertLP([table |-> NewTableLP(CapLP(st.table) * 2), count |-> 0],
               st.table, 0)

ReinsertLP(st, old, i) ==
    IF i >= CapLP(old) THEN st
    ELSE ReinsertLP(IF old[i + 1].state = "OCCUPIED"
                    THEN InsertLP(st, old[i + 1].key, old[i + 1].value)
                    ELSE st,
                    old, i + 1)

\* insert(key, value)
InsertLP(st, key, value) ==
    PlaceLP(IF OverLoadLP(st.table, st.count) THEN ResizeLP(st) ELSE st,
            key, value)

\* lookup(key): the value, or Absent
LookupLP(t, key) ==
    LET idx == FindLP(t, key)
    IN  IF idx = -1 THEN Absent ELSE t[idx + 1].value

\* update(key, value): the state after, and the return value
UpdateLP(st, key, value) ==
    LET idx == FindLP(st.table, key)
    IN  IF idx = -1 THEN [st |-> st, ret |-> FALSE]
        ELSE [st |-> [st EXCEPT !.table[idx + 1].value = value], ret |-> TRUE]

\* remove(key): the state after, and the return value
RemoveLP(st, key) ==
    LET idx == FindLP(st.table, key)
    IN  IF idx = -1 THEN [st |-> st, ret |-> FALSE]
        ELSE [st |-> [table |-> [st.table EXCEPT ![idx + 1].state = "DELETED"],
                      count |-> st.count - 1],
              ret |-> TRUE]

\* clear()
ClearLP(st) == [table |-> NewTableLP(CapLP(st.table)), count |-> 0]

StLP == [table |-> table, count |-> count]

\* the last call: the operation and its return value (TRUE for a void one)
LastLP(op, ret) == [op |-> op, ret |-> ret]

DoInsertLP ==
    \E k \in KeysLP, v \in Values :
        LET st == InsertLP(StLP, k, v)
        IN  /\ CapLP(st.table) <= MaxCapLP
            /\ table' = st.table
            /\ count' = st.count
            /\ lpLast' = LastLP("insert", TRUE)
            /\ UNCHANGED NotLP

DoLookupLP ==
    \E k \in KeysLP :
        /\ UNCHANGED <<table, count>>
        /\ lpLast' = LastLP("lookup", LookupLP(table, k) # Absent)
        /\ UNCHANGED NotLP

DoUpdateLP ==
    \E k \in KeysLP, v \in Values :
        LET r == UpdateLP(StLP, k, v)
        IN  /\ table' = r.st.table
            /\ count' = r.st.count
            /\ lpLast' = LastLP("update", r.ret)
            /\ UNCHANGED NotLP

DoRemoveLP ==
    \E k \in KeysLP :
        LET r == RemoveLP(StLP, k)
        IN  /\ table' = r.st.table
            /\ count' = r.st.count
            /\ lpLast' = LastLP("remove", r.ret)
            /\ UNCHANGED NotLP

DoClearLP ==
    /\ table' = ClearLP(StLP).table
    /\ count' = ClearLP(StLP).count
    /\ lpLast' = LastLP("clear", TRUE)
    /\ UNCHANGED NotLP

NextLP == DoInsertLP \/ DoLookupLP \/ DoUpdateLP \/ DoRemoveLP \/ DoClearLP

\* the OCCUPIED slots of the table
OccupiedLP == {i \in 0..(CapLP(table) - 1) : table[i + 1].state = "OCCUPIED"}
LiveKeysLP == {table[i + 1].key : i \in OccupiedLP}

\* C1: in the linear-probing table no two OCCUPIED slots hold the same key and
\* size() equals the number of distinct live keys, after any sequence of
\* insert, remove, update and clear (an insert of a live key whose probe path
\* passes a DELETED slot included).
C1_UniqueKeysLP ==
    /\ \A i, j \in OccupiedLP : table[i + 1].key = table[j + 1].key => i = j
    /\ count = Cardinality(LiveKeysLP)

\* C2: in every reachable state of the linear-probing table, when remove(k)
\* returns true the following lookup(k) returns absent, size() has decreased
\* by exactly one, and a second remove(k) returns false.
C2_RemoveLP ==
    \A k \in KeysLP :
        LET r == RemoveLP(StLP, k)
        IN  r.ret => /\ LookupLP(r.st.table, k) = Absent
                     /\ r.st.count = count - 1
                     /\ ~RemoveLP(r.st, k).ret

(***************************************************************************)
(* Two-level perfect hashing: SecondaryTable and PerfectHash.              *)
(* A slot std::optional<std::pair<K, V>> is <<>> (no value) or <<k, v>>.   *)
(***************************************************************************)
KeysPH == 0..MaxKeyPH

NoPair == <<>>

Max(a, b) == IF a >= b THEN a ELSE b

\* SecondaryTable(): no slots, size = 0, capacity = 0
NewSecondary == [table |-> <<>>, size |-> 0, capacity |-> 0]

\* SecondaryTable::hash(key) = hasher(key) % capacity
HashST(b, key) == StdHash(key) % b.capacity

\* the while loop of build: from h, the first slot without a value
RECURSIVE BuildScanST(_, _)
BuildScanST(t, h) ==
    IF t[h + 1] = NoPair THEN h ELSE BuildScanST(t, (h + 1) % Len(t))

\* the for loop of build: entries[i..] put into the table by linear probing
RECURSIVE BuildFillST(_, _, _)
BuildFillST(b, entries, i) ==
    IF i > Len(entries) THEN b
    ELSE LET h == BuildScanST(b.table, HashST(b, entries[i][1]))
         IN  BuildFillST([b EXCEPT !.table[h + 1] = entries[i]], entries, i + 1)

\* a build that allocates one slot per entry instead of quadratic space
BuildNarrowST(entries) ==
    LET n == Len(entries)
        cap == Max(n, 4)
    IN  BuildFillST([table |-> [i \in 1..cap |-> NoPair], size |-> n,
                     capacity |-> cap], entries, 1)

\* build(entries): size = entries.size(), capacity = max(2 * size * size, 4)
BuildST(entries) ==
    LET n == Len(entries)
        cap == Max(2 * n * n, 4)
    IN  BuildFillST([table |-> [i \in 1..cap |-> NoPair], size |-> n,
                     capacity |-> cap], entries, 1)

\* rebuild(): the stored pairs in slot order, built again
RebuildST(b) == BuildST(SelectSeq(b.table, LAMBDA e : e # NoPair))

\* the do-while loop of lookup / remove: the slot that holds key, or -1 at
\* the first slot without a value or after one full cycle
RECURSIVE FindScanST(_, _, _, _)
FindScanST(b, key, h, start) ==
    IF b.table[h + 1] = NoPair THEN -1
    ELSE IF b.table[h + 1][1] = key THEN h
    ELSE LET nxt == (h + 1) % b.capacity
         IN  IF nxt = start THEN -1 ELSE FindScanST(b, key, nxt, start)

FindST(b, key) ==
    IF b.capacity = 0 THEN -1
    ELSE FindScanST(b, key, HashST(b, key), HashST(b, key))

\* SecondaryTable::lookup(key)
LookupST(b, key) ==
    LET h == FindST(b, key)
    IN  IF h = -1 THEN Absent ELSE b.table[h + 1][2]

\* SecondaryTable::remove(key): the table after, and the return value
RemoveST(b, key) ==
    LET h == FindST(b, key)
    IN  IF h = -1 THEN [b |-> b, ret |-> FALSE]
        ELSE [b |-> [b EXCEPT !.table[h + 1] = NoPair, !.size = b.size - 1],
              ret |-> TRUE]

\* the do-while loop of insert_or_modify: the first slot that has no value or
\* holds key, or -1 after one full cycle
RECURSIVE InsertScanST(_, _, _, _)
InsertScanST(b, key, h, start) ==
    IF b.table[h + 1] = NoPair THEN h
    ELSE IF b.table[h + 1][1] = key THEN h
    ELSE LET nxt == (h + 1) % b.capacity
         IN  IF nxt = start THEN -1 ELSE InsertScanST(b, key, nxt, start)

\* SecondaryTable::insert_or_modify(key, value): the table after, and the
\* return value
RECURSIVE InsertOrModifyST(_, _, _)
InsertOrModifyST(b, key, value) ==
    IF b.capacity = 0 THEN [b |-> BuildST(<<<<key, value>>>>), ret |-> TRUE]
    ELSE LET h == InsertScanST(b, key, HashST(b, key), HashST(b, key))
         IN  IF h = -1 THEN InsertOrModifyST(RebuildST(b), key, value)
             ELSE IF b.table[h + 1] = NoPair
             THEN LET b1 == [b EXCEPT !.table[h + 1] = <<key, value>>,
                                      !.size = b.size + 1]
                  IN  [b |-> IF b1.size > b1.capacity \div 2
                             THEN RebuildST(b1) ELSE b1,
                       ret |-> TRUE]
             ELSE [b |-> [b EXCEPT !.table[h + 1][2] = value], ret |-> TRUE]

StPH == [buckets |-> buckets, size_ |-> size_]

\* getBucketIndex(key) = hasher(key) % bucketCount
BucketIndexPH(st, key) == StdHash(key) % Len(st.buckets)

\* PerfectHash::insert(key, value)
InsertPH(st, key, value) ==
    LET index == BucketIndexPH(st, key)
        r == InsertOrModifyST(st.buckets[index + 1], key, value)
    IN  [buckets |-> [st.buckets EXCEPT ![index + 1] = r.b],
         size_ |-> IF r.ret THEN st.size_ + 1 ELSE st.size_]

\* PerfectHash::lookup(key)
LookupPH(st, key) == LookupST(st.buckets[BucketIndexPH(st, key) + 1], key)

\* PerfectHash::update(key, value): the state after, and the return value
UpdatePH(st, key, value) ==
    LET index == BucketIndexPH(st, key)
    IN  IF LookupST(st.buckets[index + 1], key) = Absent
        THEN [st |-> st, ret |-> FALSE]
        ELSE LET r == InsertOrModifyST(st.buckets[index + 1], key, value)
             IN  [st |-> [st EXCEPT !.buckets[index + 1] = r.b], ret |-> r.ret]

\* PerfectHash::remove(key): the state after, and the return value
RemovePH(st, key) ==
    LET index == BucketIndexPH(st, key)
        r == RemoveST(st.buckets[index + 1], key)
    IN  IF r.ret
        THEN [st |-> [buckets |-> [st.buckets EXCEPT ![index + 1] = r.b],
                      size_ |-> st.size_ - 1],
              ret |-> TRUE]
        ELSE [st |-> st, ret |-> FALSE]

\* PerfectHash::clear()
ClearPH(st) ==
    [buckets |-> [i \in 1..Len(st.buckets) |-> NewSecondary], size_ |-> 0]

\* the last call: the operation and its return value (TRUE for a void one)
LastPH(op, ret) == [op |-> op, ret |-> ret]

DoInsertPH ==
    \E k \in KeysPH, v \in Values :
        LET st == InsertPH(StPH, k, v)
        IN  /\ st.size_ <= MaxSizePH
            /\ buckets' = st.buckets
            /\ size_' = st.size_
            /\ phLast' = LastPH("insert", TRUE)
            /\ UNCHANGED NotPH

DoLookupPH ==
    \E k \in KeysPH :
        /\ UNCHANGED <<buckets, size_>>
        /\ phLast' = LastPH("lookup", LookupPH(StPH, k) # Absent)
        /\ UNCHANGED NotPH

DoUpdatePH ==
    \E k \in KeysPH, v \in Values :
        LET r == UpdatePH(StPH, k, v)
        IN  /\ buckets' = r.st.buckets
            /\ size_' = r.st.size_
            /\ phLast' = LastPH("update", r.ret)
            /\ UNCHANGED NotPH

DoRemovePH ==
    \E k \in KeysPH :
        LET r == RemovePH(StPH, k)
        IN  /\ buckets' = r.st.buckets
            /\ size_' = r.st.size_
            /\ phLast' = LastPH("remove", r.ret)
            /\ UNCHANGED NotPH

DoClearPH ==
    /\ buckets' = ClearPH(StPH).buckets
    /\ size_' = 0
    /\ phLast' = LastPH("clear", TRUE)
    /\ UNCHANGED NotPH

NextPH == DoInsertPH \/ DoLookupPH \/ DoUpdatePH \/ DoRemovePH \/ DoClearPH

\* the keys lookup finds
LiveKeysPH == {k \in KeysPH : LookupPH(StPH, k) # Absent}

\* C3: in the Perfect table remove(a) never changes the result of lookup(b)
\* for any other key b, also when a and b share a secondary table and b's
\* probe path passes through the slot a occupied.
C3_RemoveFramePH ==
    \A a \in KeysPH : \A b \in KeysPH \ {a} :
        LookupPH(RemovePH(StPH, a).st, b) = LookupPH(StPH, b)

\* C4: PerfectHash::size() equals the number of live keys after any sequence
\* of operations; insert(k, v) on a live key k replaces the value and leaves
\* size() unchanged.
C4_SizePH ==
    /\ size_ = Cardinality(LiveKeysPH)
    /\ \A k \in LiveKeysPH : \A v \in Values :
           /\ InsertPH(StPH, k, v).size_ = size_
           /\ LookupPH(InsertPH(StPH, k, v), k) = v

(***************************************************************************)
(* Funnel table: FunnelHash.  Primary levels of buckets of beta_ slots,    *)
(* followed by one overflow level whose first half is probed uniformly and *)
(* whose second half is used by two-choice buckets or scanned whole.       *)
(***************************************************************************)
KeysFN == 0..MaxKeyFN

DEFAULT_CAPACITY == 64

\* delta_ = 0.2 = DeltaNum / DeltaDen, the default of the constructor
DeltaNum == 1
DeltaDen == 5

\* ceil(log2(num / den)) from e upwards, for num >= den
RECURSIVE CeilLog2From(_, _, _)
CeilLog2From(num, den, e) ==
    IF den * Pow(2, e) >= num THEN e ELSE CeilLog2From(num, den, e + 1)

\* alpha_ as the constructor sets it: ceil(4 * log2(1 / delta_) + 10)
AlphaInit == 10 + CeilLog2From(Pow(DeltaDen, 4), Pow(DeltaNum, 4), 0)

\* beta_: ceil(log2(1 / delta_))
beta_ == CeilLog2From(DeltaDen, DeltaNum, 0)

\* ceil(log2(log2(total + 2))): the least L with total + 2 <= 2^(2^L)
RECURSIVE LimitFrom(_, _)
LimitFrom(total, L) ==
    IF total + 2 <= Pow(2, Pow(2, L)) THEN L ELSE LimitFrom(total, L + 1)

LimitFN(total) == LimitFrom(total, 0)

EmptyEntry == [state |-> "Empty", kv |-> NoPair]

\* the largest q >= q0 with q * d <= x
RECURSIVE QuotFrom64(_, _, _)
QuotFrom64(x, d, q) ==
    IF Leq64(Mul64(Word(q + 1), d), x) THEN QuotFrom64(x, d, q + 1) ELSE q

\* floor(rem * geom[i] / sum) with geom[i] = 0.75^i and sum = geom[0] + ... +
\* geom[a - 1], which is rem * 3^i * 4^(a - 1 - i) / (4^a - 3^a); in machine
\* integers while they hold the product, in 64-bit words beyond
LevelShare(rem, i, a) ==
    IF a <= 12
    THEN (rem * Pow(3, i) * Pow(4, a - 1 - i)) \div (Pow(4, a) - Pow(3, a))
    ELSE QuotFrom64(Mul64(Word(rem), Mul64(Pow64(3, i), Pow64(4, a - 1 - i))),
                    Sub64(Pow64(4, a), Pow64(3, a)), 0)

\* the sizes of the primary levels: the loop of buildLevels that stops at the
\* first level smaller than one bucket
RECURSIVE PrimarySizes(_, _, _)
RECURSIVE PrimarySizesWith(_, _, _, _)
PrimarySizes(rem, i, a) ==
    IF i >= a THEN <<>> ELSE PrimarySizesWith(rem, i, a, LevelShare(rem, i, a))

\* ... when level i gets the share sz
PrimarySizesWith(rem, i, a, sz) ==
    IF sz < beta_ THEN <<>>
    ELSE <<(sz \div beta_) * beta_>> \o PrimarySizes(rem, i + 1, a)

RECURSIVE SumSeq(_, _)
SumSeq(s, i) == IF i > Len(s) THEN 0 ELSE s[i] + SumSeq(s, i + 1)

\* the level sizes buildLevels(n) lays out when alpha_ is a: the primary
\* levels, then the overflow level
\* minOverflow: ceil(delta_ * n / 2)
MinOverflow(n) == (DeltaNum * n + 2 * DeltaDen - 1) \div (2 * DeltaDen)

\* the primary sizes followed by the size of the overflow level
WithOverflow(n, prim) ==
    Append(prim, Max(n - SumSeq(prim, 1), MinOverflow(n)))

LevelSizes(n, a) == WithOverflow(n, PrimarySizes(n - MinOverflow(n), 0, a))

\* the emplace_back loop of buildLevels: fresh levels of these sizes
LayOut(st, sizes) ==
    [st EXCEPT !.slots_ = [l \in 1..Len(sizes) |->
                              [j \in 1..sizes[l] |-> EmptyEntry]],
               !.occupied_ = [l \in 1..Len(sizes) |-> 0],
               !.alpha_ = Len(sizes) - 1]

\* buildLevels(n)
BuildLevels(st, n) == LayOut(st, LevelSizes(n, st.alpha_))

\* FunnelHash(n): buildLevels of at least DEFAULT_CAPACITY slots, while
\* total_size_ is n
NewFN(n) ==
    BuildLevels([slots_ |-> <<>>, occupied_ |-> <<>>, total_size_ |-> n,
                 inserts_done_ |-> 0, alpha_ |-> AlphaInit],
                IF n < DEFAULT_CAPACITY THEN DEFAULT_CAPACITY ELSE n)

\* levels the hash functions are asked for: 0..alpha_ of the first layout
MaxLevelFN == Len(LevelSizes(DEFAULT_CAPACITY, AlphaInit)) - 1

\* probes the overflow level makes while total_size_ <= 254
MaxProbesFN == LimitFN(4 * DEFAULT_CAPACITY - 2)

\* hashToBucket(lvl, h)
hashToBucket(lvl, h) == splitmix64(Xor64(h, Mul64(Word(lvl), GOLDEN)))

\* hashPos(lvl, key, probe)
hashPos(lvl, key, probe) ==
    LET h == Word(StdHash(key))
        a == splitmix64(Xor64(h, Word(lvl)))
        b == splitmix64(Xor64(h, Word(probe)))
    IN  splitmix64(Xor64(a, b))

\* The hash values of the keys and levels of the model are computed once, when
\* the table is constructed, and kept in hashes:
\*   bucket[lvl][key]   hashToBucket(lvl, std::hash<K>{}(key))
\*   bucket2[lvl][key]  hashToBucket(lvl, std::hash<K>{}(key) ^ 0x9e3779b97f4a7c15ULL)
\*   pos[lvl][key][t]   hashPos(lvl, key, t)
HashTables ==
    [bucket |-> [lvl \in 0..MaxLevelFN |-> [k \in KeysFN |->
                    hashToBucket(lvl, Word(StdHash(k)))]],
     bucket2 |-> [lvl \in 0..MaxLevelFN |-> [k \in KeysFN |->
                    hashToBucket(lvl, Xor64(Word(StdHash(k)), GOLDEN))]],
     pos |-> [lvl \in 0..MaxLevelFN |-> [k \in KeysFN |->
                    [t \in 0..(MaxProbesFN - 1) |-> hashPos(lvl, k, t)]]]]

HashToBucket(lvl, key) == hashes.bucket[lvl][key]
HashToBucket2(lvl, key) == hashes.bucket2[lvl][key]
HashPos(lvl, key, t) == hashes.pos[lvl][key][t]

\* A slot is named <<lvl, idx>>.
EntryFN(st, p) == st.slots_[p[1] + 1][p[2] + 1]

\* the overflow level: its size m, its uniform half and its probe limit
OverflowSize(st) == Len(st.slots_[st.alpha_ + 1])
HalfFN(st) == OverflowSize(st) \div 2

\* the bucket of key in primary level lvl, in scan order
BucketSlots(lvl, start) == [j \in 1..beta_ |-> <<lvl, start + j - 1>>]

BucketPath(st, lvl, key) ==
    BucketSlots(lvl, Mod64(HashToBucket(lvl, key),
                           Len(st.slots_[lvl + 1]) \div beta_) * beta_)

\* the buckets of key in the primary levels lvl, ..., alpha_ - 1
RECURSIVE PrimarySegments(_, _, _)
PrimarySegments(st, lvl, key) ==
    IF lvl >= st.alpha_ THEN <<>>
    ELSE <<BucketPath(st, lvl, key)>> \o PrimarySegments(st, lvl + 1, key)

\* the uniform probes of key in the first half of the overflow level
RECURSIVE UniformFrom(_, _, _, _, _)
UniformFrom(lvl, key, half, limit, t) ==
    IF t >= limit THEN <<>>
    ELSE << <<lvl, Mod64(HashPos(lvl, key, t), half)>> >>
             \o UniformFrom(lvl, key, half, limit, t + 1)

UniformPath(st, key) ==
    UniformFrom(st.alpha_, key, HalfFN(st), LimitFN(st.total_size_), 0)

\* the second half of the overflow level: the pairs of the two buckets of key,
\* or, when the half is too small for two buckets, every slot on its own
\* the pairs i1, i2 of the two buckets that start at slots s1 and s2
RECURSIVE TwoChoiceFrom(_, _, _, _, _)
TwoChoiceFrom(lvl, s1, s2, bucket_size, j) ==
    IF j >= bucket_size THEN <<>>
    ELSE << << <<lvl, s1 + j>>, <<lvl, s2 + j>> >> >>
             \o TwoChoiceFrom(lvl, s1, s2, bucket_size, j + 1)

TwoChoiceSegments(lvl, key, half, bucket_size, nb2) ==
    TwoChoiceFrom(lvl,
                  half + Mod64(HashToBucket(lvl, key), nb2) * bucket_size,
                  half + Mod64(HashToBucket2(lvl, key), nb2) * bucket_size,
                  bucket_size, 0)

FallbackWith(lvl, key, m, half, bucket_size) ==
    IF half >= bucket_size * 2
    THEN TwoChoiceSegments(lvl, key, half, bucket_size, half \div bucket_size)
    ELSE [i \in 1..(m - half) |-> << <<lvl, half + i - 1>> >>]

FallbackSegments(st, key) ==
    FallbackWith(st.alpha_, key, OverflowSize(st), HalfFN(st),
                 LimitFN(st.total_size_) * 2)

RECURSIVE Flatten(_, _)
Flatten(segs, i) ==
    IF i > Len(segs) THEN <<>> ELSE segs[i] \o Flatten(segs, i + 1)

\* the slots insert(key, _) examines, in order: the primary buckets, the
\* uniform probes, the second half
InsertPathFN(st, key) ==
    Flatten(PrimarySegments(st, 0, key), 1) \o UniformPath(st, key)
        \o Flatten(FallbackSegments(st, key), 1)

NoSlot == <<>>

\* whether insert(key, _) stops at entry e: it is not Occupied, or holds key
Usable(e, key) == e.state # "Occupied" \/ e.kv[1] = key

\* the first slot of path insert(key, _) stops at
RECURSIVE FirstUsable(_, _, _, _)
FirstUsable(st, path, i, key) ==
    IF i > Len(path) THEN NoSlot
    ELSE IF Usable(EntryFN(st, path[i]), key) THEN path[i]
    ELSE FirstUsable(st, path, i + 1, key)

\* place(lvl, idx, key, val)
PlaceFN(st, p, key, val) ==
    [st EXCEPT !.slots_[p[1] + 1][p[2] + 1] =
                   [state |-> "Occupied", kv |-> <<key, val>>],
               !.occupied_[p[1] + 1] = @ + 1]

\* the (key, value) pairs of the Occupied slots of a level from slot j on
RECURSIVE ItemsOfLevel(_, _)
ItemsOfLevel(lvl, j) ==
    IF j > Len(lvl) THEN <<>>
    ELSE (IF lvl[j].state = "Occupied" THEN <<lvl[j].kv>> ELSE <<>>)
             \o ItemsOfLevel(lvl, j + 1)

\* ... of all levels from level l on
RECURSIVE ItemsFN(_, _)
ItemsFN(st, l) ==
    IF l > Len(st.slots_) THEN <<>>
    ELSE ItemsOfLevel(st.slots_[l], 1) \o ItemsFN(st, l + 1)

\* inserts_done_ + 1 > total_size_ * (1 - delta_)
OverLoadFN(st) ==
    (st.inserts_done_ + 1) * DeltaDen > st.total_size_ * (DeltaDen - DeltaNum)

\* insert(key, value), with expand() and the re-insertion loop of expand()
RECURSIVE InsertFN(_, _, _)
RECURSIVE InsertAtFN(_, _, _, _)
RECURSIVE ExpandFN(_)
RECURSIVE ReinsertFN(_, _, _)
InsertFN(st, key, value) ==
    IF OverLoadFN(st) THEN InsertFN(ExpandFN(st), key, value)
    ELSE InsertAtFN(st, FirstUsable(st, InsertPathFN(st, key), 1, key),
                    key, value)

\* ... when the scan stopped at slot p: overwrite the value of key, or place
\* the entry and count it; with no such slot, expand() and insert again
InsertAtFN(st, p, key, value) ==
    IF p = NoSlot THEN InsertFN(ExpandFN(st), key, value)
    ELSE IF EntryFN(st, p).state = "Occupied"
    THEN [st EXCEPT !.slots_[p[1] + 1][p[2] + 1].kv = <<key, value>>]
    ELSE [PlaceFN(st, p, key, value) EXCEPT !.inserts_done_ = @ + 1]

ExpandFN(st) ==
    ReinsertFN([BuildLevels([st EXCEPT !.total_size_ = 2 * @],
                            2 * st.total_size_)
                   EXCEPT !.inserts_done_ = 0],
               ItemsFN(st, 1), 1)

ReinsertFN(st, items, i) ==
    IF i > Len(items) THEN st
    ELSE ReinsertFN(InsertFN(st, items[i][1], items[i][2]), items, i + 1)

\* whether entry e holds key
Holds(e, key) == e.state = "Occupied" /\ e.kv[1] = key

\* the slot of key in the segment from position i on: the scan ends at an
\* Empty slot
RECURSIVE FindInSegment(_, _, _, _)
FindInSegment(st, seg, i, key) ==
    IF i > Len(seg) THEN NoSlot
    ELSE IF EntryFN(st, seg[i]).state = "Empty" THEN NoSlot
    ELSE IF Holds(EntryFN(st, seg[i]), key) THEN seg[i]
    ELSE FindInSegment(st, seg, i + 1, key)

\* the slot of key in the first segment, from segment s on, that has it
RECURSIVE FindInSegments(_, _, _, _)
RECURSIVE FoundOrNext(_, _, _, _, _)
FindInSegments(st, segs, s, key) ==
    IF s > Len(segs) THEN NoSlot
    ELSE FoundOrNext(st, segs, s, key, FindInSegment(st, segs[s], 1, key))

FoundOrNext(st, segs, s, key, p) ==
    IF p # NoSlot THEN p ELSE FindInSegments(st, segs, s + 1, key)

\* the scans of lookupOverflow: the uniform probes end at an Empty slot; a
\* pair of two-choice slots is left at an Empty slot; the whole-half scan
\* steps over Empty slots
OverflowSegments(st, key) ==
    IF OverflowSize(st) < 1 THEN <<>>
    ELSE <<UniformPath(st, key)>> \o FallbackSegments(st, key)

\* the slot lookup(key) returns the value of
FindFN(st, key) ==
    FindInSegments(st, PrimarySegments(st, 0, key) \o OverflowSegments(st, key),
                   1, key)

\* lookup(key)
ValueAtFN(st, p) == IF p = NoSlot THEN Absent ELSE EntryFN(st, p).kv[2]

LookupFN(st, key) == ValueAtFN(st, FindFN(st, key))

\* update(key, value): lookup, then insert
UpdateFN(st, key, value) ==
    IF LookupFN(st, key) = Absent THEN [st |-> st, ret |-> FALSE]
    ELSE [st |-> InsertFN(st, key, value), ret |-> TRUE]

\* the scans of remove: the bucket of key in each primary level, then the
\* overflow level from its slot 0, each ending at an Empty slot
RemoveSegments(st, key) ==
    PrimarySegments(st, 0, key)
        \o << [j \in 1..OverflowSize(st) |-> <<st.alpha_, j - 1>>] >>

\* a remove that closes the gap: the entry of the next slot of the level is
\* moved into the freed slot
RemoveShiftAtFN(st, p) ==
    IF p = NoSlot THEN [st |-> st, ret |-> FALSE]
    ELSE IF p[2] + 2 > Len(st.slots_[p[1] + 1])
    THEN [st |-> [st EXCEPT !.slots_[p[1] + 1][p[2] + 1] =
                                [state |-> "Deleted", kv |-> NoPair],
                            !.occupied_[p[1] + 1] = @ - 1],
          ret |-> TRUE]
    ELSE [st |-> [st EXCEPT !.slots_[p[1] + 1][p[2] + 1] =
                                st.slots_[p[1] + 1][p[2] + 2],
                            !.slots_[p[1] + 1][p[2] + 2] =
                                [state |-> "Deleted", kv |-> NoPair],
                            !.occupied_[p[1] + 1] = @ - 1],
          ret |-> TRUE]

\* remove(key)
RemoveAtFN(st, p) ==
    IF p = NoSlot THEN [st |-> st, ret |-> FALSE]
    ELSE [st |-> [st EXCEPT !.slots_[p[1] + 1][p[2] + 1] =
                                [state |-> "Deleted", kv |-> NoPair],
                            !.occupied_[p[1] + 1] = @ - 1],
          ret |-> TRUE]

RemoveFN(st, key) ==
    RemoveAtFN(st, FindInSegments(st, RemoveSegments(st, key), 1, key))

\* size()
SizeFN(st) == st.inserts_done_

\* clear() without the reset of inserts_done_
ClearSlotsFN(st) ==
    [st EXCEPT !.slots_ = [l \in 1..Len(st.slots_) |->
                              [j \in 1..Len(st.slots_[l]) |-> EmptyEntry]],
               !.occupied_ = [l \in 1..Len(st.occupied_) |-> 0]]

\* clear()
ClearFN(st) ==
    [st EXCEPT !.slots_ = [l \in 1..Len(st.slots_) |->
                              [j \in 1..Len(st.slots_[l]) |-> EmptyEntry]],
               !.occupied_ = [l \in 1..Len(st.occupied_) |-> 0],
               !.inserts_done_ = 0]

StFN == [slots_ |-> slots_, occupied_ |-> occupied_, total_size_ |-> total_size_,
         inserts_done_ |-> inserts_done_, alpha_ |-> alpha_]

LastFN(op, ret) == [op |-> op, ret |-> ret]

SetFN(st) ==
    /\ slots_' = st.slots_
    /\ occupied_' = st.occupied_
    /\ total_size_' = st.total_size_
    /\ inserts_done_' = st.inserts_done_
    /\ alpha_' = st.alpha_

DoInsertFN ==
    \E k \in KeysFN, v \in Values :
        \E st \in {InsertFN(StFN, k, v)} :
            /\ st.total_size_ <= MaxTotalFN
            /\ SetFN(st)
            /\ fnLast' = LastFN("insert", TRUE)
            /\ UNCHANGED <<hashes, NotFN>>

DoLookupFN ==
    \E k \in KeysFN :
        /\ fnLast' = LastFN("lookup", LookupFN(StFN, k) # Absent)
        /\ UNCHANGED <<slots_, occupied_, total_size_, inserts_done_, alpha_>>
        /\ UNCHANGED <<hashes, NotFN>>

DoUpdateFN ==
    \E k \in KeysFN, v \in Values :
        \E r \in {UpdateFN(StFN, k, v)} :
            /\ r.st.total_size_ <= MaxTotalFN
            /\ SetFN(r.st)
            /\ fnLast' = LastFN("update", r.ret)
            /\ UNCHANGED <<hashes, NotFN>>

DoRemoveFN ==
    \E k \in KeysFN :
        \E r \in {RemoveFN(StFN, k)} :
            /\ SetFN(r.st)
            /\ fnLast' = LastFN("remove", r.ret)
            /\ UNCHANGED <<hashes, NotFN>>

DoClearFN ==
    /\ SetFN(ClearFN(StFN))
    /\ fnLast' = LastFN("clear", TRUE)
    /\ UNCHANGED <<hashes, NotFN>>

NextFN == DoInsertFN \/ DoLookupFN \/ DoUpdateFN \/ DoRemoveFN \/ DoClearFN

\* the keys lookup finds
LiveKeysFN == {k \in KeysFN : LookupFN(StFN, k) # Absent}

\* the slots of table st
AllSlotsFN(st) ==
    UNION {{<<l - 1, j - 1>> : j \in 1..Len(st.slots_[l])} :
               l \in 1..Len(st.slots_)}

\* the slots of st that hold key
SlotsOfFN(st, key) == {p \in AllSlotsFN(st) : Holds(EntryFN(st, p), key)}

\* C5: in the Funnel table a remove(k) that removes a live key decreases
\* size() by exactly one.
C5_RemoveSizeFN ==
    \A k \in KeysFN :
        LET r == RemoveFN(StFN, k)
        IN  r.ret => SizeFN(r.st) = SizeFN(StFN) - 1

\* C6: in the Funnel table remove(k) returns true and makes lookup(k) absent
\* for every key k that lookup finds, wherever its entry is stored: in a
\* primary bucket, in the uniform half or in the second half of the overflow
\* level.
C6_RemoveFindsFN ==
    \A k \in LiveKeysFN :
        LET r == RemoveFN(StFN, k)
        IN  r.ret /\ LookupFN(r.st, k) = Absent

\* C7: in the Funnel table update(k, v) and insert(k, v) on a live key k act
\* as an in-slot overwrite: afterwards lookup(k) is v, size() is unchanged and
\* k is still held by exactly one slot, also when a Deleted slot precedes the
\* slot of k in the scan order of insert.
C7_OverwriteFN ==
    \A k \in LiveKeysFN : \A v \in Values :
        Cardinality(SlotsOfFN(StFN, k)) = 1 =>
            LET st == InsertFN(StFN, k, v)
                u == UpdateFN(StFN, k, v)
            IN  /\ LookupFN(st, k) = v
                /\ SizeFN(st) = SizeFN(StFN)
                /\ Cardinality(SlotsOfFN(st, k)) = 1
                /\ u.ret
                /\ u.st = st

(***************************************************************************)
(* Iceberg table: IcebergHash.  Per block a Level-1 array, a Level-2 array *)
(* and a Level-3 list; key 0 marks an empty slot.  The blocks of the model *)
(* are smaller than the source's (2^SLOT_BITS and LV2_SLOTS are bounds),   *)
(* so that a block fills up within the keys of the model.                  *)
(*                                                                         *)
(* size is a size_t: the model keeps the signed representative, a negative *)
(* n standing for 2^64 + n.                                                *)
(***************************************************************************)
\* RESIZE_THRESHOLD = 0.85 = ThresholdNum / ThresholdDen
ThresholdNum == 17
ThresholdDen == 20

\* the legitimate keys, and the whole key type, which includes the sentinel 0
KeysIB == 1..MaxKeyIB
Keys0IB == 0..MaxKey0IB

\* Entry{}: key = 0, value = 0
EmptyIB == [key |-> 0, value |-> 0]

\* 1ULL << SLOT_BITS
Lv1Slots == Pow(2, SLOT_BITS)

\* Block(n)
NewBlock(n) == [i \in 1..n |-> EmptyIB]

\* the levels of a table of n blocks, with size = 0
NewIB(n) ==
    [capacity_blocks |-> n, size |-> 0,
     level1 |-> [b \in 1..n |-> NewBlock(Lv1Slots)],
     level2 |-> [b \in 1..n |-> NewBlock(LV2_SLOTS)],
     level3 |-> [b \in 1..n |-> <<>>]]

hash1(st, key) == StdHash(key) % st.capacity_blocks
hash2(st, key) == (StdHash(key) \div 37) % st.capacity_blocks

\* the position, from i on, of the first entry of es whose key is in keys;
\* 0 if there is none
RECURSIVE FirstWithKey(_, _, _)
FirstWithKey(es, i, keys) ==
    IF i > Len(es) THEN 0
    ELSE IF es[i].key \in keys THEN i
    ELSE FirstWithKey(es, i + 1, keys)

\* (double)size / (capacity_blocks * ((1ULL << SLOT_BITS) + LV2_SLOTS))
\*     >= RESIZE_THRESHOLD
ResizeDue(st) ==
    \/ st.size < 0
    \/ st.size * ThresholdDen
           >= ThresholdNum * st.capacity_blocks * (Lv1Slots + LV2_SLOTS)

\* if (e.key == 0) ++size
SizeAfterPut(st, e) == IF e.key = 0 THEN st.size + 1 ELSE st.size

\* insert after the resize check, when the Level-1 scan stopped at slot i1 and
\* the Level-2 scan at slot i2 (0: the scan found no slot)
PutAtIB(st, key, value, idx1, idx2, i1, i2) ==
    IF i1 # 0
    THEN [st EXCEPT !.size = SizeAfterPut(st, st.level1[idx1 + 1][i1]),
                    !.level1[idx1 + 1][i1] = [key |-> key, value |-> value]]
    ELSE IF i2 # 0
    THEN [st EXCEPT !.size = SizeAfterPut(st, st.level2[idx2 + 1][i2]),
                    !.level2[idx2 + 1][i2] = [key |-> key, value |-> value]]
    ELSE [st EXCEPT !.size = @ + 1,
                    !.level3[idx1 + 1] = <<[key |-> key, value |-> value]>> \o @]

PutInIB(st, key, value, idx1, idx2) ==
    PutAtIB(st, key, value, idx1, idx2,
            FirstWithKey(st.level1[idx1 + 1], 1, {0, key}),
            FirstWithKey(st.level2[idx2 + 1], 1, {0, key}))

PutIB(st, key, value) ==
    PutInIB(st, key, value, hash1(st, key), hash2(st, key))

\* the entries of es, from i on, that resize() inserts again
RECURSIVE KeptIB(_, _)
KeptIB(es, i) ==
    IF i > Len(es) THEN <<>>
    ELSE (IF es[i].key # 0 THEN <<es[i]>> ELSE <<>>) \o KeptIB(es, i + 1)

\* ... of the blocks from block b on: Level 1, Level 2, then all of Level 3
RECURSIVE ItemsIB(_, _)
ItemsIB(st, b) ==
    IF b > st.capacity_blocks THEN <<>>
    ELSE KeptIB(st.level1[b], 1) \o KeptIB(st.level2[b], 1) \o st.level3[b]
             \o ItemsIB(st, b + 1)

\* insert(key, value), with resize() and its re-insertion loops
RECURSIVE InsertIB(_, _, _)
RECURSIVE ResizeIB(_)
RECURSIVE ReinsertIB(_, _, _)
InsertIB(st, key, value) ==
    PutIB(IF ResizeDue(st) THEN ResizeIB(st) ELSE st, key, value)

ResizeIB(st) == ReinsertIB(NewIB(2 * st.capacity_blocks), ItemsIB(st, 1), 1)

ReinsertIB(st, items, i) ==
    IF i > Len(items) THEN st
    ELSE ReinsertIB(InsertIB(st, items[i].key, items[i].value), items, i + 1)

NullOpt == [present |-> FALSE, value |-> 0]
Present(v) == [present |-> TRUE, value |-> v]

\* lookup when the scans of Level 1, Level 2 and Level 3 stopped at i1, i2, i3
LookupAtIB(st, idx1, idx2, i1, i2, i3) ==
    IF i1 # 0 THEN Present(st.level1[idx1 + 1][i1].value)
    ELSE IF i2 # 0 THEN Present(st.level2[idx2 + 1][i2].value)
    ELSE IF i3 # 0 THEN Present(st.level3[idx1 + 1][i3].value)
    ELSE NullOpt

FindIB(st, key, idx1, idx2) ==
    <<FirstWithKey(st.level1[idx1 + 1], 1, {key}),
      FirstWithKey(st.level2[idx2 + 1], 1, {key}),
      FirstWithKey(st.level3[idx1 + 1], 1, {key})>>

LookupInIB(st, idx1, idx2, found) ==
    LookupAtIB(st, idx1, idx2, found[1], found[2], found[3])

\* lookup(key)
LookupIB(st, key) ==
    LookupInIB(st, hash1(st, key), hash2(st, key),
               FindIB(st, key, hash1(st, key), hash2(st, key)))

\* the list without its element i
WithoutIB(es, i) == SubSeq(es, 1, i - 1) \o SubSeq(es, i + 1, Len(es))

RemoveAtIB(st, idx1, idx2, i1, i2, i3) ==
    IF i1 # 0
    THEN [st |-> [st EXCEPT !.level1[idx1 + 1][i1].key = 0, !.size = @ - 1],
          ret |-> TRUE]
    ELSE IF i2 # 0
    THEN [st |-> [st EXCEPT !.level2[idx2 + 1][i2].key = 0, !.size = @ - 1],
          ret |-> TRUE]
    ELSE IF i3 # 0
    THEN [st |-> [st EXCEPT !.level3[idx1 + 1] = WithoutIB(@, i3),
                            !.size = @ - 1],
          ret |-> TRUE]
    ELSE [st |-> st, ret |-> FALSE]

RemoveInIB(st, idx1, idx2, found) ==
    RemoveAtIB(st, idx1, idx2, found[1], found[2], found[3])

\* remove(key)
RemoveIB(st, key) ==
    RemoveInIB(st, hash1(st, key), hash2(st, key),
               FindIB(st, key, hash1(st, key), hash2(st, key)))

\* modify(key, new_value): lookup, then remove and insert
ModifyIB(st, key, new_value) ==
    IF LookupIB(st, key).present
    THEN [st |-> InsertIB(RemoveIB(st, key).st, key, new_value), ret |-> TRUE]
    ELSE [st |-> st, ret |-> FALSE]

StIB == [capacity_blocks |-> capacity_blocks, size |-> size,
         level1 |-> level1, level2 |-> level2, level3 |-> level3]

SetIB(st) ==
    /\ capacity_blocks' = st.capacity_blocks
    /\ size' = st.size
    /\ level1' = st.level1
    /\ level2' = st.level2
    /\ level3' = st.level3

LastIB(op, ret) == [op |-> op, ret |-> ret]

\* the table is within the blocks and list lengths explored
WithinIB(st) ==
    /\ st.capacity_blocks <= MaxBlocksIB
    /\ \A b \in 1..st.capacity_blocks : Len(st.level3[b]) <= MaxListIB

\* the map the calls so far describe: insert and modify set the value of a
\* key, remove takes the key out
SetModelIB(m, key, value) ==
    [k \in DOMAIN m \cup {key} |-> IF k = key THEN value ELSE m[k]]
DropModelIB(m, key) == [k \in DOMAIN m \ {key} |-> m[k]]

DoInsertIB ==
    \E k \in domainIB, v \in Values :
        \E st \in {InsertIB(StIB, k, v)} :
            /\ WithinIB(st)
            /\ SetIB(st)
            /\ modelIB' = SetModelIB(modelIB, k, v)
            /\ ibLast' = LastIB("insert", TRUE)
            /\ UNCHANGED <<domainIB, NotIB>>

DoLookupIB ==
    \E k \in domainIB :
        /\ ibLast' = LastIB("lookup", LookupIB(StIB, k).present)
        /\ UNCHANGED <<capacity_blocks, size, level1, level2, level3>>
        /\ UNCHANGED <<modelIB, domainIB, NotIB>>

DoRemoveIB ==
    \E k \in domainIB :
        \E r \in {RemoveIB(StIB, k)} :
            /\ r.st.size >= -MaxWrapIB
            /\ SetIB(r.st)
            /\ modelIB' = DropModelIB(modelIB, k)
            /\ ibLast' = LastIB("remove", r.ret)
            /\ UNCHANGED <<domainIB, NotIB>>

DoModifyIB ==
    \E k \in domainIB, v \in Values :
        \E r \in {ModifyIB(StIB, k, v)} :
            /\ WithinIB(r.st)
            /\ SetIB(r.st)
            /\ modelIB' = IF k \in DOMAIN modelIB
                          THEN SetModelIB(modelIB, k, v) ELSE modelIB
            /\ ibLast' = LastIB("modify", r.ret)
            /\ UNCHANGED <<domainIB, NotIB>>

NextIB == DoInsertIB \/ DoLookupIB \/ DoRemoveIB \/ DoModifyIB

\* the entries with key `key` in the places of key: its Level-1 block, its
\* Level-2 block and its Level-3 list
CopiesIB(st, key) ==
    Cardinality({i \in 1..Lv1Slots :
                    st.level1[hash1(st, key) + 1][i].key = key})
  + Cardinality({i \in 1..LV2_SLOTS :
                    st.level2[hash2(st, key) + 1][i].key = key})
  + Cardinality({i \in 1..Len(st.level3[hash1(st, key) + 1]) :
                    st.level3[hash1(st, key) + 1][i].key = key})

\* the keys the calls so far have inserted and not removed
LiveKeysIB == DOMAIN modelIB

\* C8: after any sequence of insert, remove and modify with legitimate keys,
\* each live key is stored in exactly one place among its Level-1 block, its
\* Level-2 block and its Level-3 list, and size is the number of live keys.
C8_UniqueIB ==
    0 \notin domainIB =>
        /\ \A k \in LiveKeysIB : CopiesIB(StIB, k) = 1
        /\ size = Cardinality(LiveKeysIB)

\* C9: for every key of the key type, 0 included, that is not live, lookup
\* returns absent, remove and modify return false and leave the size alone;
\* and for every key, 0 included, lookup after insert(k, v) returns v.
C9_NotLiveIB ==
    \A k \in domainIB :
        /\ k \notin LiveKeysIB =>
               /\ ~LookupIB(StIB, k).present
               /\ ~RemoveIB(StIB, k).ret
               /\ RemoveIB(StIB, k).st.size = size
               /\ \A v \in Values :
                      /\ ~ModifyIB(StIB, k, v).ret
                      /\ ModifyIB(StIB, k, v).st.size = size
        /\ \A v \in Values :
               LookupIB(InsertIB(StIB, k, v), k) = Present(v)

(***************************************************************************)
(* Partitioned table without index: SlowPartitionHashTable<K, V, N>.       *)
(* NUM_BUCKETS buckets, each a raw array of BUCKET_CAPACITY entries filled *)
(* from the left up to count.  The source derives the two constants from   *)
(* the template parameter N; the model takes them as bounds.  Entries at   *)
(* and beyond count are never read; the model keeps what was last written  *)
(* there, and Unset where nothing was written.                             *)
(***************************************************************************)
KeysSP == 0..MaxKeySP

Unset == [key |-> -1, value |-> 0]

\* SlowPartitionHashTable(): every count is 0, size_ is 0
NewSP ==
    [buckets |-> [b \in 1..NUM_BUCKETS |->
                     [slots |-> [i \in 1..BUCKET_CAPACITY |-> Unset],
                      count |-> 0]],
     size |-> 0]

\* bucket_index(key)
BucketIndexSP(key) == StdHash(key) % NUM_BUCKETS

\* the position, from i on and below count, of the first entry of the bucket
\* with the key; 0 if there is none
RECURSIVE FirstInSP(_, _, _)
FirstInSP(bucket, i, key) ==
    IF i > bucket.count THEN 0
    ELSE IF bucket.slots[i].key = key THEN i
    ELSE FirstInSP(bucket, i + 1, key)

\* insert(key, value): throws when the bucket is full, else appends
InsertSP(st, key, value) ==
    IF st.buckets[BucketIndexSP(key) + 1].count >= BUCKET_CAPACITY
    THEN [st |-> st, ret |-> "overflow"]
    ELSE [st |-> [st EXCEPT
                     !.buckets[BucketIndexSP(key) + 1].slots[
                         st.buckets[BucketIndexSP(key) + 1].count + 1] =
                             [key |-> key, value |-> value],
                     !.buckets[BucketIndexSP(key) + 1].count = @ + 1,
                     !.size = @ + 1],
          ret |-> "done"]

LookupAtSP(bucket, i) == IF i = 0 THEN NullOpt ELSE Present(bucket.slots[i].value)

\* lookup(key)
LookupSP(st, key) ==
    LookupAtSP(st.buckets[BucketIndexSP(key) + 1],
               FirstInSP(st.buckets[BucketIndexSP(key) + 1], 1, key))

UpdateAtSP(st, b, i, value) ==
    IF i = 0 THEN [st |-> st, ret |-> FALSE]
    ELSE [st |-> [st EXCEPT !.buckets[b + 1].slots[i].value = value],
          ret |-> TRUE]

\* update(key, value)
UpdateSP(st, key, value) ==
    UpdateAtSP(st, BucketIndexSP(key),
               FirstInSP(st.buckets[BucketIndexSP(key) + 1], 1, key), value)

RemoveAtSP(st, b, i) ==
    IF i = 0 THEN [st |-> st, ret |-> FALSE]
    ELSE [st |-> [st EXCEPT
                     !.buckets[b + 1].slots[i] =
                         st.buckets[b + 1].slots[st.buckets[b + 1].count],
                     !.buckets[b + 1].count = @ - 1,
                     !.size = @ - 1],
          ret |-> TRUE]

\* remove(key)
RemoveSP(st, key) ==
    RemoveAtSP(st, BucketIndexSP(key),
               FirstInSP(st.buckets[BucketIndexSP(key) + 1], 1, key))

\* size()
SizeSP(st) == st.size

\* clear()
ClearSP(st) ==
    [buckets |-> [b \in 1..NUM_BUCKETS |-> [st.buckets[b] EXCEPT !.count = 0]],
     size |-> 0]

StSP == [buckets |-> bucketsSP, size |-> sizeSP]

LastSP(op, ret) == [op |-> op, ret |-> ret]

DoInsertSP ==
    \E k \in KeysSP, v \in Values :
        \E r \in {InsertSP(StSP, k, v)} :
            /\ bucketsSP' = r.st.buckets
            /\ sizeSP' = r.st.size
            /\ spLast' = LastSP("insert", r.ret)
            /\ UNCHANGED NotSP

DoLookupSP ==
    \E k \in KeysSP :
        /\ spLast' = LastSP("lookup", LookupSP(StSP, k))
        /\ UNCHANGED <<bucketsSP, sizeSP, NotSP>>

DoUpdateSP ==
    \E k \in KeysSP, v \in Values :
        \E r \in {UpdateSP(StSP, k, v)} :
            /\ bucketsSP' = r.st.buckets
            /\ sizeSP' = r.st.size
            /\ spLast' = LastSP("update", r.ret)
            /\ UNCHANGED NotSP

DoRemoveSP ==
    \E k \in KeysSP :
        \E r \in {RemoveSP(StSP, k)} :
            /\ bucketsSP' = r.st.buckets
            /\ sizeSP' = r.st.size
            /\ spLast' = LastSP("remove", r.ret)
            /\ UNCHANGED NotSP

DoClearSP ==
    /\ bucketsSP' = ClearSP(StSP).buckets
    /\ sizeSP' = ClearSP(StSP).size
    /\ spLast' = LastSP("clear", TRUE)
    /\ UNCHANGED NotSP

NextSP == DoInsertSP \/ DoLookupSP \/ DoUpdateSP \/ DoRemoveSP \/ DoClearSP

\* the keys lookup finds
LiveKeysSP == {k \in KeysSP : LookupSP(StSP, k).present}

\* C10: insert(k, v) on a live key k of a partitioned table replaces its value
\* without changing size() or the count of its bucket, and lookup(k) then
\* returns v.
C10_InsertLiveSP ==
    \A k \in LiveKeysSP : \A v \in Values :
        LET r == InsertSP(StSP, k, v)
        IN  r.ret = "done" =>
                /\ SizeSP(r.st) = SizeSP(StSP)
                /\ r.st.buckets[BucketIndexSP(k) + 1].count
                       = bucketsSP[BucketIndexSP(k) + 1].count
                /\ LookupSP(r.st, k) = Present(v)

(***************************************************************************)
(* Partitioned table with a per-bucket index: IndexedPartitionHashTable.   *)
(* Each bucket holds its entries from the left up to count, and a query    *)
(* mapper from fingerprints to positions.  The mapper's class is not among *)
(* the sources (the BTree of btree.h is a set of keys, without positions), *)
(* so the mapper is modelled from the specification's description: a map   *)
(* fingerprint -> slot index.  The constructor derives the number of       *)
(* buckets and their capacity from n; the model takes them as bounds.      *)
(***************************************************************************)
\* fingerprint_hasher_(key) % (1ULL << 12)
FingerprintBits == 12

\* the keys offered: the small ones, and keys with the fingerprints of small
\* ones
KeysIP ==
    (0..MaxKeyIP) \cup {Pow(2, FingerprintBits) + k : k \in 0..MaxAliasIP}

\* the query mapper: an empty map, membership, the stored position, recording
\* a position, and removal
MapperNew == <<>>
MapperSearch(m, fp) == fp \in DOMAIN m
MapperValue(m, fp) == m[fp]
MapperInsert(m, fp, pos) ==
    [f \in DOMAIN m \cup {fp} |-> IF f = fp THEN pos ELSE m[f]]
MapperRemove(m, fp) == [f \in DOMAIN m \ {fp} |-> m[f]]

\* a value-initialised Entry
EmptyIP == [key |-> 0, value |-> 0]

\* IndexedPartitionHashTable(n, c)
NewOfIP(bucket_capacity) ==
    [buckets |-> [b \in 1..NumBucketsIP |->
                     [slots |-> [i \in 1..bucket_capacity |-> EmptyIP],
                      count |-> 0,
                      query_mapper |-> MapperNew]],
     size |-> 0]

NewIP == NewOfIP(BucketCapacityIP)

\* bucket_index(key)
BucketIndexIP(key) == StdHash(key) % NumBucketsIP

\* fingerprint(key); regenerating the hash function gives the same function
fingerprint(key) == StdHash(key) % Pow(2, FingerprintBits)

\* rebuild_fingerprints(bucket) from position i (0-based) on with the mapper
\* m built so far.  On a repeated fingerprint the function calls itself on
\* the same bucket with the same hash function, and so never returns:
\* ok = FALSE.
RECURSIVE RebuildFrom(_, _, _)
RebuildFrom(bucket, i, m) ==
    IF i >= bucket.count THEN [query_mapper |-> m, ok |-> TRUE]
    ELSE IF MapperSearch(m, fingerprint(bucket.slots[i + 1].key))
    THEN [query_mapper |-> m, ok |-> FALSE]
    ELSE RebuildFrom(bucket, i + 1,
                     MapperInsert(m, fingerprint(bucket.slots[i + 1].key), i))

rebuild_fingerprints(bucket) == RebuildFrom(bucket, 0, MapperNew)

\* insert(key, value) on its bucket, once the fingerprint check has left the
\* mapper rb.query_mapper (rb.ok = FALSE: the rebuild never returns)
InsertWithIP(st, b, rb, key, value) ==
    IF ~rb.ok
    THEN [st |-> [st EXCEPT !.buckets[b + 1].query_mapper = rb.query_mapper],
          ret |-> "diverges"]
    ELSE IF st.buckets[b + 1].count >= Len(st.buckets[b + 1].slots)
    THEN [st |-> [st EXCEPT !.buckets[b + 1].query_mapper = rb.query_mapper],
          ret |-> "overflow"]
    ELSE [st |-> [st EXCEPT
                     !.buckets[b + 1].slots[st.buckets[b + 1].count + 1] =
                         [key |-> key, value |-> value],
                     !.buckets[b + 1].query_mapper =
                         MapperInsert(rb.query_mapper, fingerprint(key),
                                      st.buckets[b + 1].count),
                     !.buckets[b + 1].count = @ + 1,
                     !.size = @ + 1],
          ret |-> "done"]

InsertInIP(st, b, key, value) ==
    InsertWithIP(st, b,
                 IF MapperSearch(st.buckets[b + 1].query_mapper, fingerprint(key))
                 THEN rebuild_fingerprints(st.buckets[b + 1])
                 ELSE [query_mapper |-> st.buckets[b + 1].query_mapper,
                       ok |-> TRUE],
                 key, value)

InsertIP(st, key, value) == InsertInIP(st, BucketIndexIP(key), key, value)

\* the position of key in its bucket as lookup, update and remove find it
\* (0-based); -1 if they do not
PositionIn(bucket, key) ==
    IF ~MapperSearch(bucket.query_mapper, fingerprint(key)) THEN -1
    ELSE IF MapperValue(bucket.query_mapper, fingerprint(key)) >= bucket.count
    THEN -1
    ELSE IF bucket.slots[
                MapperValue(bucket.query_mapper, fingerprint(key)) + 1].key # key
    THEN -1
    ELSE MapperValue(bucket.query_mapper, fingerprint(key))

PositionIP(st, key) == PositionIn(st.buckets[BucketIndexIP(key) + 1], key)

LookupAtIP(bucket, pos) ==
    IF pos < 0 THEN NullOpt ELSE Present(bucket.slots[pos + 1].value)

\* lookup(key)
LookupIP(st, key) ==
    LookupAtIP(st.buckets[BucketIndexIP(key) + 1], PositionIP(st, key))

UpdateAtIP(st, b, pos, value) ==
    IF pos < 0 THEN [st |-> st, ret |-> FALSE]
    ELSE [st |-> [st EXCEPT !.buckets[b + 1].slots[pos + 1].value = value],
          ret |-> TRUE]

\* update(key, value)
UpdateIP(st, key, value) ==
    UpdateAtIP(st, BucketIndexIP(key), PositionIP(st, key), value)

\* the bucket after remove has moved its last entry to position pos
MoveLastIP(bucket, pos) ==
    IF pos # bucket.count - 1
    THEN [bucket EXCEPT
             !.slots[pos + 1] = bucket.slots[bucket.count],
             !.query_mapper =
                 MapperInsert(@, fingerprint(bucket.slots[bucket.count].key), pos)]
    ELSE bucket

DropIP(bucket, key) ==
    [bucket EXCEPT !.query_mapper = MapperRemove(@, fingerprint(key)),
                   !.count = @ - 1]

RemoveAtIP(st, b, pos, key) ==
    IF pos < 0 THEN [st |-> st, ret |-> FALSE]
    ELSE [st |-> [st EXCEPT
                     !.buckets[b + 1] = DropIP(MoveLastIP(@, pos), key),
                     !.size = @ - 1],
          ret |-> TRUE]

\* remove(key)
RemoveIP(st, key) ==
    RemoveAtIP(st, BucketIndexIP(key), PositionIP(st, key), key)

\* size()
SizeIP(st) == st.size

\* clear()
ClearIP(st) ==
    [buckets |-> [b \in 1..NumBucketsIP |->
                     [st.buckets[b] EXCEPT !.count = 0,
                                           !.query_mapper = MapperNew]],
     size |-> 0]

StIP == [buckets |-> bucketsIP, size |-> sizeIP]

LastIP(op, ret) == [op |-> op, ret |-> ret]

\* no call is pending: the last insert has returned or thrown
ReturnedIP == IF ipLast.op = "insert" THEN ipLast.ret # "diverges" ELSE TRUE

DoInsertIP ==
    /\ ReturnedIP
    /\ \E k \in KeysIP, v \in Values :
           \E r \in {InsertIP(StIP, k, v)} :
               /\ bucketsIP' = r.st.buckets
               /\ sizeIP' = r.st.size
               /\ ipLast' = LastIP("insert", r.ret)
               /\ UNCHANGED NotIP

DoLookupIP ==
    /\ ReturnedIP
    /\ \E k \in KeysIP :
           /\ ipLast' = LastIP("lookup", LookupIP(StIP, k))
           /\ UNCHANGED <<bucketsIP, sizeIP, NotIP>>

DoUpdateIP ==
    /\ ReturnedIP
    /\ \E k \in KeysIP, v \in Values :
           \E r \in {UpdateIP(StIP, k, v)} :
               /\ bucketsIP' = r.st.buckets
               /\ sizeIP' = r.st.size
               /\ ipLast' = LastIP("update", r.ret)
               /\ UNCHANGED NotIP

DoRemoveIP ==
    /\ ReturnedIP
    /\ \E k \in KeysIP :
           \E r \in {RemoveIP(StIP, k)} :
               /\ bucketsIP' = r.st.buckets
               /\ sizeIP' = r.st.size
               /\ ipLast' = LastIP("remove", r.ret)
               /\ UNCHANGED NotIP

DoClearIP ==
    /\ ReturnedIP
    /\ bucketsIP' = ClearIP(StIP).buckets
    /\ sizeIP' = ClearIP(StIP).size
    /\ ipLast' = LastIP("clear", TRUE)
    /\ UNCHANGED NotIP

NextIP == DoInsertIP \/ DoLookupIP \/ DoUpdateIP \/ DoRemoveIP \/ DoClearIP

\* C11: rebuild_fingerprints terminates for every bucket content: whatever
\* the bucket holds, an insert returns or fails with an error and never
\* recurses forever.
C11_RebuildEndsIP ==
    ReturnedIP =>
        \A k \in KeysIP : \A v \in Values :
            InsertIP(StIP, k, v).ret \in {"done", "overflow"}

\* C12: an insert into a full bucket fails with the bucket-overflow error and
\* leaves size (hence loadFactor), every bucket's count and the result of
\* lookup for every key as they were.
C12_OverflowIP ==
    ReturnedIP =>
        \A k \in KeysIP : \A v \in Values :
            bucketsIP[BucketIndexIP(k) + 1].count = BucketCapacityIP =>
                /\ InsertIP(StIP, k, v).ret = "overflow"
                /\ SizeIP(InsertIP(StIP, k, v).st) = SizeIP(StIP)
                /\ \A b \in 1..NumBucketsIP :
                       InsertIP(StIP, k, v).st.buckets[b].count
                           = bucketsIP[b].count
                /\ \A j \in KeysIP :
                       LookupIP(InsertIP(StIP, k, v).st, j) = LookupIP(StIP, j)

\* C13: after any operation, in each bucket the query mapper is a bijection
\* from the fingerprints of the keys at the positions [0, count) to those
\* positions, each key's fingerprint mapping to the position holding the key.
C13_BijectionIP ==
    ReturnedIP =>
        \A b \in 1..NumBucketsIP :
            /\ DOMAIN bucketsIP[b].query_mapper
                   = {fingerprint(bucketsIP[b].slots[i].key) :
                          i \in 1..bucketsIP[b].count}
            /\ \A i \in 1..bucketsIP[b].count :
                   MapperValue(bucketsIP[b].query_mapper,
                               fingerprint(bucketsIP[b].slots[i].key)) = i - 1

\* the keys offered to the table of WideCapacityIP entries per bucket
WideKeysIP == {NumBucketsIP * k : k \in 0..MaxWideKeyIP}

DoInsertWideIP ==
    /\ ReturnedIP
    /\ \E k \in WideKeysIP, v \in Values :
           \E r \in {InsertIP(StIP, k, v)} :
               /\ bucketsIP' = r.st.buckets
               /\ sizeIP' = r.st.size
               /\ ipLast' = LastIP("insert", r.ret)
               /\ UNCHANGED NotIP

DoRemoveWideIP ==
    /\ ReturnedIP
    /\ \E k \in WideKeysIP :
           \E r \in {RemoveIP(StIP, k)} :
               /\ bucketsIP' = r.st.buckets
               /\ sizeIP' = r.st.size
               /\ ipLast' = LastIP("remove", r.ret)
               /\ UNCHANGED NotIP

NextIR == DoInsertWideIP \/ DoRemoveWideIP

\* the entries of bucket b of st at the positions [0, count) after remove(key)
\* are those before it, but for position pos, which may hold the entry that
\* was last
MovedAtMostLastIP(st, after, b, pos) ==
    \A c \in 1..NumBucketsIP :
        \A i \in 1..after.buckets[c].count :
            \/ after.buckets[c].slots[i] = st.buckets[c].slots[i]
            \/ /\ c = b + 1
               /\ i = pos + 1
               /\ after.buckets[c].slots[i]
                      = st.buckets[c].slots[st.buckets[c].count]

\* what C39 says of remove(key) on st, with result r
RemoveFrameIP(st, key, r) ==
    /\ r.ret
    /\ MovedAtMostLastIP(st, r.st, BucketIndexIP(key), PositionIP(st, key))
    /\ SizeIP(r.st) = SizeIP(st) - 1
    /\ LookupIP(r.st, key) = NullOpt
    /\ \A j \in KeysIP \ {key} :
           LookupIP(st, j) # NullOpt => LookupIP(r.st, j) = LookupIP(st, j)

\* C39: remove(k) of a live key moves at most the bucket's last entry, into
\* k's former position; afterwards size() is one less, lookup(k) is absent
\* and every other live key, the moved one included, looks up to the value it
\* had.
C39_RemoveIP ==
    ReturnedIP =>
        \A k \in KeysIP :
            LookupIP(StIP, k) # NullOpt =>
                RemoveFrameIP(StIP, k, RemoveIP(StIP, k))

(***************************************************************************)
(* Cuckoo table: CuckooHash.  Two tables of capacity_ entries; a key lives *)
(* at table1[hash1(key)] or table2[hash2(key)].  An entry that was removed *)
(* keeps its key and value with occupied = false.                          *)
(***************************************************************************)
\* the keys offered: high * 2^16 + low with an even low part, so that hash2
\* differs from hash1 for the keys with a high part and the keys share slots
\* while the capacity is small
KeysCK == {a * 65536 + 2 * b : a \in 0..MaxHighCK, b \in 0..MaxLowCK}

\* Entry{}
EmptyCK == [key |-> 0, value |-> 0, occupied |-> FALSE]

\* CuckooHash(initial_capacity); unfinished marks a call that the model has
\* abandoned because the capacity would pass CapLimitCK
NewCK(n) ==
    [capacity_ |-> n, size_ |-> 0,
     table1 |-> [i \in 1..n |-> EmptyCK],
     table2 |-> [i \in 1..n |-> EmptyCK],
     unfinished |-> FALSE]

\* a hash2 that sends every key to slot 0, whatever the capacity
hash2StuckCK(key, cap) == 0

\* hash1(key) and hash2(key) under capacity cap
hash1CK(key, cap) == StdHash(key) % cap
\* ((h >> 16) ^ h) % capacity_; for h below 2^32 the xor changes the low 16
\* bits of h only
ShiftXor16(h) == (h \div 65536) * 65536 + XorInt(h \div 65536, h % 65536, 16)
hash2CK(key, cap) == ShiftXor16(StdHash(key)) % cap

\* the entry {key, value, true}
FullCK(key, value) == [key |-> key, value |-> value, occupied |-> TRUE]

\* table[i].occupied && table[i].key == key
HoldsCK(t, i, key) == t[i + 1].occupied /\ t[i + 1].key = key

\* the occupied entries of a table from position i on
RECURSIVE OccupiedFromCK(_, _)
OccupiedFromCK(t, i) ==
    IF i > Len(t) THEN <<>>
    ELSE (IF t[i].occupied THEN <<t[i]>> ELSE <<>>) \o OccupiedFromCK(t, i + 1)

RECURSIVE InsertCK(_, _, _)
RECURSIVE KickCK(_, _, _, _)
RECURSIVE KickT1(_, _, _, _, _)
RECURSIVE KickT2(_, _, _, _, _)
RECURSIVE RehashCK(_)
RECURSIVE ReinsertCK(_, _, _)

\* a displacement loop that, at the kick limit, rehashes and drops the pair
\* in hand
KickLoseCK(st, cur_key, cur_value, kicks) ==
    IF kicks < st.capacity_
    THEN KickT1(st, hash1CK(cur_key, st.capacity_), cur_key, cur_value, kicks)
    ELSE RehashCK(st)

\* a displacement loop that gives up one round early
KickEarlyCK(st, cur_key, cur_value, kicks) ==
    IF kicks + 1 < st.capacity_
    THEN KickT1(st, hash1CK(cur_key, st.capacity_), cur_key, cur_value, kicks)
    ELSE InsertCK(RehashCK(st), cur_key, cur_value)

\* a rehash that doubles the tables and leaves the entries where they were
RehashKeepCK(st) ==
    IF 2 * st.capacity_ > CapLimitCK THEN [st EXCEPT !.unfinished = TRUE]
    ELSE [st EXCEPT !.capacity_ = 2 * @,
                    !.table1 = @ \o [i \in 1..st.capacity_ |-> EmptyCK],
                    !.table2 = @ \o [i \in 1..st.capacity_ |-> EmptyCK]]

\* a rehash that does not reset size_ before inserting the entries again
RehashNoResetCK(st) ==
    IF 2 * st.capacity_ > CapLimitCK THEN [st EXCEPT !.unfinished = TRUE]
    ELSE ReinsertCK([NewCK(2 * st.capacity_) EXCEPT !.size_ = st.size_],
                    OccupiedFromCK(st.table1, 1) \o OccupiedFromCK(st.table2, 1),
                    1)

\* an insert that looks for the key in table1 only before it places the pair
InsertT1OnlyCK(st, key, value) ==
    IF st.unfinished THEN st
    ELSE IF HoldsCK(st.table1, hash1CK(key, st.capacity_), key)
    THEN [st EXCEPT !.table1[hash1CK(key, st.capacity_) + 1].value = value]
    ELSE KickCK(st, key, value, 0)

\* insert(key, value)
InsertCK(st, key, value) ==
    IF st.unfinished THEN st
    ELSE IF HoldsCK(st.table1, hash1CK(key, st.capacity_), key)
    THEN [st EXCEPT !.table1[hash1CK(key, st.capacity_) + 1].value = value]
    ELSE IF HoldsCK(st.table2, hash2CK(key, st.capacity_), key)
    THEN [st EXCEPT !.table2[hash2CK(key, st.capacity_) + 1].value = value]
    ELSE KickCK(st, key, value, 0)

\* the displacement loop with the pair in hand, after `kicks` rounds
KickCK(st, cur_key, cur_value, kicks) ==
    IF kicks < st.capacity_
    THEN KickT1(st, hash1CK(cur_key, st.capacity_), cur_key, cur_value, kicks)
    ELSE InsertCK(RehashCK(st), cur_key, cur_value)

\* the first half of a round: place at table1[i1], or swap with its entry
KickT1(st, i1, cur_key, cur_value, kicks) ==
    IF ~st.table1[i1 + 1].occupied
    THEN [st EXCEPT !.table1[i1 + 1] = FullCK(cur_key, cur_value),
                    !.size_ = @ + 1]
    ELSE KickT2([st EXCEPT !.table1[i1 + 1] = FullCK(cur_key, cur_value)],
                hash2CK(st.table1[i1 + 1].key, st.capacity_),
                st.table1[i1 + 1].key, st.table1[i1 + 1].value, kicks)

\* the second half: place at table2[i2], or swap and start the next round
KickT2(st, i2, cur_key, cur_value, kicks) ==
    IF ~st.table2[i2 + 1].occupied
    THEN [st EXCEPT !.table2[i2 + 1] = FullCK(cur_key, cur_value),
                    !.size_ = @ + 1]
    ELSE KickCK([st EXCEPT !.table2[i2 + 1] = FullCK(cur_key, cur_value)],
                st.table2[i2 + 1].key, st.table2[i2 + 1].value, kicks + 1)

\* rehash()
RehashCK(st) ==
    IF 2 * st.capacity_ > CapLimitCK THEN [st EXCEPT !.unfinished = TRUE]
    ELSE ReinsertCK(NewCK(2 * st.capacity_),
                    OccupiedFromCK(st.table1, 1) \o OccupiedFromCK(st.table2, 1),
                    1)

ReinsertCK(st, items, i) ==
    IF i > Len(items) THEN st
    ELSE ReinsertCK(InsertCK(st, items[i].key, items[i].value), items, i + 1)

\* The while loop of insert on its own (lines 53-74), from round `kicks` on
\* with the pair in hand: whether a round placed the pair, the tables when
\* the loop ends, the pair then in hand and the rounds completed.
RECURSIVE ChainCK(_, _, _, _)
RECURSIVE ChainT1(_, _, _, _, _)
RECURSIVE ChainT2(_, _, _, _, _)
ChainCK(st, cur_key, cur_value, kicks) ==
    IF kicks < st.capacity_
    THEN ChainT1(st, hash1CK(cur_key, st.capacity_), cur_key, cur_value, kicks)
    ELSE [placed |-> FALSE, st |-> st, key |-> cur_key, value |-> cur_value,
          kicks |-> kicks]

ChainT1(st, i1, cur_key, cur_value, kicks) ==
    IF ~st.table1[i1 + 1].occupied
    THEN [placed |-> TRUE,
          st |-> [st EXCEPT !.table1[i1 + 1] = FullCK(cur_key, cur_value),
                            !.size_ = @ + 1],
          key |-> cur_key, value |-> cur_value, kicks |-> kicks]
    ELSE ChainT2([st EXCEPT !.table1[i1 + 1] = FullCK(cur_key, cur_value)],
                 hash2CK(st.table1[i1 + 1].key, st.capacity_),
                 st.table1[i1 + 1].key, st.table1[i1 + 1].value, kicks)

ChainT2(st, i2, cur_key, cur_value, kicks) ==
    IF ~st.table2[i2 + 1].occupied
    THEN [placed |-> TRUE,
          st |-> [st EXCEPT !.table2[i2 + 1] = FullCK(cur_key, cur_value),
                            !.size_ = @ + 1],
          key |-> cur_key, value |-> cur_value, kicks |-> kicks]
    ELSE ChainCK([st EXCEPT !.table2[i2 + 1] = FullCK(cur_key, cur_value)],
                 st.table2[i2 + 1].key, st.table2[i2 + 1].value, kicks + 1)

\* lookup(key)
LookupCK(st, key) ==
    IF HoldsCK(st.table1, hash1CK(key, st.capacity_), key)
    THEN Present(st.table1[hash1CK(key, st.capacity_) + 1].value)
    ELSE IF HoldsCK(st.table2, hash2CK(key, st.capacity_), key)
    THEN Present(st.table2[hash2CK(key, st.capacity_) + 1].value)
    ELSE NullOpt

\* update(key, value)
UpdateCK(st, key, value) ==
    IF HoldsCK(st.table1, hash1CK(key, st.capacity_), key)
    THEN [st |-> [st EXCEPT !.table1[hash1CK(key, st.capacity_) + 1].value = value],
          ret |-> TRUE]
    ELSE IF HoldsCK(st.table2, hash2CK(key, st.capacity_), key)
    THEN [st |-> [st EXCEPT !.table2[hash2CK(key, st.capacity_) + 1].value = value],
          ret |-> TRUE]
    ELSE [st |-> st, ret |-> FALSE]

\* remove(key)
RemoveCK(st, key) ==
    IF HoldsCK(st.table1, hash1CK(key, st.capacity_), key)
    THEN [st |-> [st EXCEPT
                     !.table1[hash1CK(key, st.capacity_) + 1].occupied = FALSE,
                     !.size_ = @ - 1],
          ret |-> TRUE]
    ELSE IF HoldsCK(st.table2, hash2CK(key, st.capacity_), key)
    THEN [st |-> [st EXCEPT
                     !.table2[hash2CK(key, st.capacity_) + 1].occupied = FALSE,
                     !.size_ = @ - 1],
          ret |-> TRUE]
    ELSE [st |-> st, ret |-> FALSE]

\* size()
SizeCK(st) == st.size_

\* clear()
ClearCK(st) == NewCK(st.capacity_)

StCK == [capacity_ |-> capacityCK, size_ |-> sizeCK, table1 |-> table1,
         table2 |-> table2, unfinished |-> FALSE]

SetCK(st) ==
    /\ capacityCK' = st.capacity_
    /\ sizeCK' = st.size_
    /\ table1' = st.table1
    /\ table2' = st.table2

LastCK(op, ret) == [op |-> op, ret |-> ret]

DoInsertCK ==
    \E k \in KeysCK, v \in Values :
        \E st \in {InsertCK(StCK, k, v)} :
            /\ ~st.unfinished
            /\ st.capacity_ <= MaxCapCK
            /\ SetCK(st)
            /\ modelCK' = SetModelIB(modelCK, k, v)
            /\ ckLast' = LastCK("insert", TRUE)
            /\ UNCHANGED NotCK

DoLookupCK ==
    \E k \in KeysCK :
        /\ ckLast' = LastCK("lookup", LookupCK(StCK, k).present)
        /\ UNCHANGED <<capacityCK, sizeCK, table1, table2, modelCK, NotCK>>

DoUpdateCK ==
    \E k \in KeysCK, v \in Values :
        \E r \in {UpdateCK(StCK, k, v)} :
            /\ SetCK(r.st)
            /\ modelCK' = IF k \in DOMAIN modelCK
                          THEN SetModelIB(modelCK, k, v) ELSE modelCK
            /\ ckLast' = LastCK("update", r.ret)
            /\ UNCHANGED NotCK

DoRemoveCK ==
    \E k \in KeysCK :
        \E r \in {RemoveCK(StCK, k)} :
            /\ SetCK(r.st)
            /\ modelCK' = DropModelIB(modelCK, k)
            /\ ckLast' = LastCK("remove", r.ret)
            /\ UNCHANGED NotCK

DoClearCK ==
    /\ SetCK(ClearCK(StCK))
    /\ modelCK' = <<>>
    /\ ckLast' = LastCK("clear", TRUE)
    /\ UNCHANGED NotCK

NextCK == DoInsertCK \/ DoLookupCK \/ DoUpdateCK \/ DoRemoveCK \/ DoClearCK

\* the keys the calls so far have inserted and not removed
LiveKeysCK == DOMAIN modelCK

\* the occupied positions (1-based) of a table
OccupiedCK(t) == {i \in 1..Len(t) : t[i].occupied}

\* C14: after every operation each occupied table1[i] holds a key with
\* hash1(key) = i and each occupied table2[i] a key with hash2(key) = i under
\* the current capacity, and lookup, update and remove find every live key.
C14_PlacementCK ==
    /\ \A i \in OccupiedCK(table1) :
           hash1CK(table1[i].key, capacityCK) = i - 1
    /\ \A i \in OccupiedCK(table2) :
           hash2CK(table2[i].key, capacityCK) = i - 1
    /\ \A k \in LiveKeysCK :
           /\ LookupCK(StCK, k).present
           /\ \A v \in Values : UpdateCK(StCK, k, v).ret
           /\ RemoveCK(StCK, k).ret

\* C14 witness: the table has grown and both tables hold a key
C14_Witness ==
    /\ capacityCK = MaxCapCK
    /\ OccupiedCK(table1) # {}
    /\ OccupiedCK(table2) # {}
    /\ Cardinality(LiveKeysCK) >= 3

KeysEM == 0..MaxKeyEM

\* Entry{}: occupied = false
EmptyEM == [key |-> 0, value |-> 0, occupied |-> FALSE]

\* static constexpr double C
C == 4

\* the level sizes of init_tables(cap): cap >> (lev + 1) while that is
\* positive, then what is left of cap
RECURSIVE LevelSizesEM(_, _, _)
LevelSizesEM(cap, lev, sum) ==
    IF cap \div Pow(2, lev + 1) > 0
    THEN <<cap \div Pow(2, lev + 1)>>
             \o LevelSizesEM(cap, lev + 1, sum + cap \div Pow(2, lev + 1))
    ELSE <<cap - sum>>

\* tables and occupied_counts for the level sizes s
TablesOf(s) == [i \in 1..Len(s) |-> [p \in 1..s[i] |-> EmptyEM]]
CountsOf(s) == [i \in 1..Len(s) |-> 0]

\* init_tables(cap)
init_tables(st, cap) ==
    [st EXCEPT !.sizes = LevelSizesEM(cap, 0, 0),
               !.tables = TablesOf(LevelSizesEM(cap, 0, 0)),
               !.occupied_counts = CountsOf(LevelSizesEM(cap, 0, 0))]

\* ceil(C * log2(r[1] / r[2])) for r[1] >= r[2] > 0, from n on: the least n
\* with 2^n >= (r[1] / r[2])^C
RECURSIVE CeilLogFrom(_, _)
CeilLogFrom(r, n) ==
    IF Pow(2, n) * Pow(r[2], C) >= Pow(r[1], C) THEN n
    ELSE CeilLogFrom(r, n + 1)

\* max_probes = ceil(C * log2(1.0 / delta))
max_probes == CeilLogFrom(<<DeltaDenEM, DeltaNumEM>>, 0)

\* ElasticHash(initial_capacity, delta_thresh)
NewEM(initial_capacity) ==
    init_tables([capacity |-> initial_capacity, inserted |-> 0,
                 sizes |-> <<>>, tables |-> <<>>, occupied_counts |-> <<>>],
                initial_capacity)

\* h ^ (h >> (level + 1)) ^ (j * 0x9e3779b97f4a7c15ULL)
MixEM(key, level, j) ==
    Xor64(Xor64(Word(StdHash(key)), Shr64(Word(StdHash(key)), level + 1)),
          Mul64(Word(j), GOLDEN))

\* the levels and probe indices of a table of capacity CapLimitEM
MaxLevelEM == Len(LevelSizesEM(CapLimitEM, 0, 0)) - 1
MaxProbeEM == CeilLogFrom(<<CapLimitEM, 1>>, 0)

\* The mixes of the keys, levels and probe indices of the model are computed
\* once, when the table is constructed, and kept in mixesEM.
MixTables ==
    [k \in KeysEM |-> [level \in 0..MaxLevelEM |->
        [j \in 0..MaxProbeEM |-> MixEM(k, level, j)]]]

\* probe_pos(key, level, j)
probe_pos(st, key, level, j) == Mod64(mixesEM[key][level][j], st.sizes[level + 1])

\* 1 / free for `used` of `total` slots taken, as <<numerator, denominator>>:
\* total / (total - used), and 1 / delta when nothing is free
InvFree(total, used) ==
    IF total > used THEN <<total, total - used>>
    ELSE <<DeltaDenEM, DeltaNumEM>>

\* std::min of two such ratios
SmallerEM(p, q) == IF p[1] * q[2] <= q[1] * p[2] THEN p ELSE q

\* probes of level i in insert:
\* max(1, ceil(C * min(log2(1 / free_i), log2(1 / free_glob))))
ProbesEM(st, i) ==
    Max(1, CeilLogFrom(SmallerEM(InvFree(st.sizes[i + 1], st.occupied_counts[i + 1]),
                                 InvFree(st.capacity, st.inserted)), 0))

\* tables[i][pos].occupied && tables[i][pos].key == key
HoldsEM(st, i, pos, key) ==
    st.tables[i + 1][pos + 1].occupied /\ st.tables[i + 1][pos + 1].key = key

\* the scan of lookup, modify and remove from level i, probe j on: the first
\* slot within max_probes probes of a level that holds the key
RECURSIVE FindEM(_, _, _, _)
FindEM(st, key, i, j) ==
    IF i >= Len(st.tables) THEN [found |-> FALSE, level |-> 0, pos |-> 0]
    ELSE IF j >= max_probes THEN FindEM(st, key, i + 1, 0)
    ELSE IF HoldsEM(st, i, probe_pos(st, key, i, j), key)
    THEN [found |-> TRUE, level |-> i, pos |-> probe_pos(st, key, i, j)]
    ELSE FindEM(st, key, i, j + 1)

\* lookup(key)
LookupAtEM(st, f) ==
    IF f.found THEN Present(st.tables[f.level + 1][f.pos + 1].value)
    ELSE NullOpt

LookupEM(st, key) == LookupAtEM(st, FindEM(st, key, 0, 0))

\* modify(key, new_value)
ModifyAtEM(st, f, new_value) ==
    IF f.found
    THEN [st |-> [st EXCEPT !.tables[f.level + 1][f.pos + 1].value = new_value],
          ret |-> TRUE]
    ELSE [st |-> st, ret |-> FALSE]

ModifyEM(st, key, new_value) == ModifyAtEM(st, FindEM(st, key, 0, 0), new_value)

\* remove(key)
RemoveAtEM(st, f) ==
    IF f.found
    THEN [st |-> [st EXCEPT !.tables[f.level + 1][f.pos + 1].occupied = FALSE,
                            !.occupied_counts[f.level + 1] = @ - 1,
                            !.inserted = @ - 1],
          ret |-> TRUE]
    ELSE [st |-> st, ret |-> FALSE]

RemoveEM(st, key) == RemoveAtEM(st, FindEM(st, key, 0, 0))

\* the occupied entries of the levels from level i (1-based) on
RECURSIVE AllFromEM(_, _)
AllFromEM(tables, i) ==
    IF i > Len(tables) THEN <<>>
    ELSE OccupiedFromCK(tables[i], 1) \o AllFromEM(tables, i + 1)

RECURSIVE InsertEM(_, _, _)
RECURSIVE PlaceEM(_, _, _, _, _)
RECURSIVE RehashEM(_)
RECURSIVE ReinsertEM(_, _, _)

\* insert(key, value)
InsertEM(st, key, value) ==
    IF FindEM(st, key, 0, 0).found THEN ModifyEM(st, key, value).st
    ELSE PlaceEM(st, key, value, 0, 0)

\* the placement loops of insert from level i, probe j on
PlaceEM(st, key, value, i, j) ==
    IF i >= Len(st.tables) THEN InsertEM(RehashEM(st), key, value)
    ELSE IF j >= ProbesEM(st, i) THEN PlaceEM(st, key, value, i + 1, 0)
    ELSE IF ~st.tables[i + 1][probe_pos(st, key, i, j) + 1].occupied
    THEN [st EXCEPT !.tables[i + 1][probe_pos(st, key, i, j) + 1] =
                        [key |-> key, value |-> value, occupied |-> TRUE],
                    !.occupied_counts[i + 1] = @ + 1,
                    !.inserted = @ + 1]
    ELSE PlaceEM(st, key, value, i, j + 1)

\* rehash()
RehashEM(st) ==
    ReinsertEM(init_tables([st EXCEPT !.capacity = 2 * st.capacity,
                                      !.inserted = 0],
                           2 * st.capacity),
               AllFromEM(st.tables, 1), 1)

ReinsertEM(st, all, i) ==
    IF i > Len(all) THEN st
    ELSE ReinsertEM(InsertEM(st, all[i].key, all[i].value), all, i + 1)

StEM == [capacity |-> capacityEM, inserted |-> insertedEM, sizes |-> sizesEM,
         tables |-> tablesEM, occupied_counts |-> countsEM]

SetEM(st) ==
    /\ capacityEM' = st.capacity
    /\ insertedEM' = st.inserted
    /\ sizesEM' = st.sizes
    /\ tablesEM' = st.tables
    /\ countsEM' = st.occupied_counts

LastEM(op, ret) == [op |-> op, ret |-> ret]

DoInsertEM ==
    \E k \in KeysEM, v \in Values :
        \E st \in {InsertEM(StEM, k, v)} :
            /\ st.capacity <= MaxCapEM
            /\ SetEM(st)
            /\ emLast' = LastEM("insert", TRUE)
            /\ UNCHANGED <<mixesEM, NotEM>>

DoLookupEM ==
    \E k \in KeysEM :
        /\ emLast' = LastEM("lookup", LookupEM(StEM, k).present)
        /\ UNCHANGED <<capacityEM, insertedEM, sizesEM, tablesEM, countsEM,
                       mixesEM, NotEM>>

DoModifyEM ==
    \E k \in KeysEM, v \in Values :
        \E r \in {ModifyEM(StEM, k, v)} :
            /\ SetEM(r.st)
            /\ emLast' = LastEM("modify", r.ret)
            /\ UNCHANGED <<mixesEM, NotEM>>

DoRemoveEM ==
    \E k \in KeysEM :
        \E r \in {RemoveEM(StEM, k)} :
            /\ SetEM(r.st)
            /\ emLast' = LastEM("remove", r.ret)
            /\ UNCHANGED <<mixesEM, NotEM>>

NextEM == DoInsertEM \/ DoLookupEM \/ DoModifyEM \/ DoRemoveEM

\* C18: in every reachable state of the multi-level elastic table and for
\* every key k and value v, lookup(k) after insert(k, v) returns v: insert
\* places a key only where lookup examines.
C18_InsertThenLookupEM ==
    \A k \in KeysEM : \A v \in Values :
        LookupEM(InsertEM(StEM, k, v), k) = Present(v)

(***************************************************************************)
(* Linear-probing ElasticHash (include/elastic.h).                         *)
(***************************************************************************)
KeysEL == 0..MaxKeyEL

\* Entry{}: status = Status::Empty
EmptyEL == [key |-> 0, value |-> 0, status |-> "Empty"]

\* ElasticHash(initial_capacity)
NewEL(initial_capacity) ==
    [capacity_ |-> initial_capacity, size_ |-> 0,
     table |-> [i \in 1..initial_capacity |-> EmptyEL]]

\* a probe whose scans stop at a Deleted slot as they do at an Empty one
RECURSIVE ProbeStopEL(_, _, _, _, _, _)
ProbeStopEL(st, key, for_insert, original, i, index) ==
    IF st.table[index + 1].status \in {"Empty", "Deleted"}
    THEN (IF for_insert THEN index ELSE st.capacity_)
    ELSE IF st.table[index + 1].key = key THEN index
    ELSE IF i + 1 = st.capacity_ THEN st.capacity_
    ELSE ProbeStopEL(st, key, for_insert, original, i + 1,
                     (original + i + 1) % st.capacity_)

\* the loop of probe at step i, on table[index]
RECURSIVE ProbeAtEL(_, _, _, _, _, _)
ProbeAtEL(st, key, for_insert, original, i, index) ==
    IF st.table[index + 1].status \in {"Empty", "Deleted"} /\ for_insert
    THEN index
    ELSE IF st.table[index + 1].status = "Empty" THEN st.capacity_
    ELSE IF st.table[index + 1].status = "Occupied"
            /\ st.table[index + 1].key = key
    THEN index
    ELSE IF i + 1 = st.capacity_ THEN st.capacity_
    ELSE ProbeAtEL(st, key, for_insert, original, i + 1,
                   (original + i + 1) % st.capacity_)

\* probe(key, for_insert)
probe(st, key, for_insert) ==
    ProbeAtEL(st, key, for_insert, StdHash(key) % st.capacity_, 0,
              StdHash(key) % st.capacity_)

\* idx < capacity_ && table[idx].status == Status::Occupied
FoundEL(st, idx) ==
    IF idx < st.capacity_ THEN st.table[idx + 1].status = "Occupied" ELSE FALSE

\* a growth check that waits until the table is full: loadFactor() >= 1
OverFullEL(st) == st.size_ >= st.capacity_

\* loadFactor() > 0.7
OverLoadedEL(st) == 10 * st.size_ > 7 * st.capacity_

RECURSIVE InsertEL(_, _, _)
RECURSIVE RehashEL(_)
RECURSIVE ReinsertEL(_, _, _)

\* an insert that takes the first free slot of the probe without looking for
\* the key behind it
InsertFirstFreeEL(st, key, value, found, idx) ==
    IF idx = st.capacity_
    THEN [st EXCEPT !.table[found + 1].value = value]
    ELSE IF st.table[idx + 1].status = "Occupied"
    THEN [st EXCEPT !.table[idx + 1].value = value]
    ELSE [st EXCEPT !.table[idx + 1] =
                        [key |-> key, value |-> value, status |-> "Occupied"],
                    !.size_ = @ + 1]

\* insert once probe(key, false) and probe(key, true) have returned
InsertAtEL(st, key, value, found, idx) ==
    IF FoundEL(st, found)
    THEN [st EXCEPT !.table[found + 1].value = value]
    ELSE IF idx = st.capacity_ THEN InsertEL(RehashEL(st), key, value)
    ELSE IF OverLoadedEL([st EXCEPT !.size_ = @ + 1])
    THEN RehashEL([st EXCEPT !.table[idx + 1] =
                                 [key |-> key, value |-> value,
                                  status |-> "Occupied"],
                             !.size_ = @ + 1])
    ELSE [st EXCEPT !.table[idx + 1] =
                        [key |-> key, value |-> value, status |-> "Occupied"],
                    !.size_ = @ + 1]

\* insert(key, value)
InsertEL(st, key, value) ==
    InsertAtEL(st, key, value, probe(st, key, FALSE), probe(st, key, TRUE))

\* rehash()
RehashEL(st) ==
    ReinsertEL(NewEL(2 * st.capacity_), st.table, 1)

ReinsertEL(st, old_table, i) ==
    IF i > Len(old_table) THEN st
    ELSE IF old_table[i].status = "Occupied"
    THEN ReinsertEL(InsertEL(st, old_table[i].key, old_table[i].value),
                    old_table, i + 1)
    ELSE ReinsertEL(st, old_table, i + 1)

\* lookup(key)
LookupAtEL(st, idx) ==
    IF FoundEL(st, idx) THEN Present(st.table[idx + 1].value) ELSE NullOpt

LookupEL(st, key) == LookupAtEL(st, probe(st, key, FALSE))

\* update(key, value)
UpdateAtEL(st, idx, value) ==
    IF FoundEL(st, idx)
    THEN [st |-> [st EXCEPT !.table[idx + 1].value = value], ret |-> TRUE]
    ELSE [st |-> st, ret |-> FALSE]

UpdateEL(st, key, value) == UpdateAtEL(st, probe(st, key, FALSE), value)

\* remove(key)
RemoveAtEL(st, idx) ==
    IF FoundEL(st, idx)
    THEN [st |-> [st EXCEPT !.table[idx + 1].status = "Deleted",
                            !.size_ = @ - 1],
          ret |-> TRUE]
    ELSE [st |-> st, ret |-> FALSE]

RemoveEL(st, key) == RemoveAtEL(st, probe(st, key, FALSE))

\* size()
SizeEL(st) == st.size_

\* clear()
ClearEL(st) ==
    [st EXCEPT !.table = [i \in 1..st.capacity_ |-> EmptyEL], !.size_ = 0]

StEL == [capacity_ |-> capacityEL, size_ |-> sizeEL, table |-> tableEL]

SetEL(st) ==
    /\ capacityEL' = st.capacity_
    /\ sizeEL' = st.size_
    /\ tableEL' = st.table

LastEL(op, ret) == [op |-> op, ret |-> ret]

DoInsertEL ==
    \E k \in KeysEL, v \in Values :
        \E st \in {InsertEL(StEL, k, v)} :
            /\ st.capacity_ <= MaxCapEL
            /\ SetEL(st)
            /\ modelEL' = SetModelIB(modelEL, k, v)
            /\ elLast' = LastEL("insert", TRUE)
            /\ UNCHANGED NotEL

DoLookupEL ==
    \E k \in KeysEL :
        /\ elLast' = LastEL("lookup", LookupEL(StEL, k).present)
        /\ UNCHANGED <<capacityEL, sizeEL, tableEL, modelEL, NotEL>>

DoUpdateEL ==
    \E k \in KeysEL, v \in Values :
        \E r \in {UpdateEL(StEL, k, v)} :
            /\ SetEL(r.st)
            /\ modelEL' = IF k \in DOMAIN modelEL
                          THEN SetModelIB(modelEL, k, v) ELSE modelEL
            /\ elLast' = LastEL("update", r.ret)
            /\ UNCHANGED NotEL

DoRemoveEL ==
    \E k \in KeysEL :
        \E r \in {RemoveEL(StEL, k)} :
            /\ SetEL(r.st)
            /\ modelEL' = DropModelIB(modelEL, k)
            /\ elLast' = LastEL("remove", r.ret)
            /\ UNCHANGED NotEL

DoClearEL ==
    /\ SetEL(ClearEL(StEL))
    /\ modelEL' = <<>>
    /\ elLast' = LastEL("clear", TRUE)
    /\ UNCHANGED NotEL

NextEL == DoInsertEL \/ DoLookupEL \/ DoUpdateEL \/ DoRemoveEL \/ DoClearEL

\* the keys the calls so far have inserted and not removed
LiveKeysEL == DOMAIN modelEL

\* C19: when remove(k) returns true, lookup(k) is absent afterwards, size()
\* has decreased by one and every other key looks up as before: the removed
\* slot is Deleted and probes for other keys continue past it.
C19_RemoveEL ==
    \A k \in KeysEL :
        RemoveEL(StEL, k).ret =>
            /\ LookupEL(RemoveEL(StEL, k).st, k) = NullOpt
            /\ SizeEL(RemoveEL(StEL, k).st) = SizeEL(StEL) - 1
            /\ \A j \in LiveKeysEL \ {k} :
                   LookupEL(RemoveEL(StEL, k).st, j) = Present(modelEL[j])

\* C19 witness: a remove has returned true, and a live key is found beyond
\* the Deleted slot at its home position
C19_Witness ==
    /\ elLast.op = "remove" /\ elLast.ret
    /\ \E j \in LiveKeysEL :
           /\ tableEL[(StdHash(j) % capacityEL) + 1].status = "Deleted"
           /\ LookupEL(StEL, j) = Present(modelEL[j])

\* C20: in the linear-probing table every insert(k, v) stores the pair, so
\* that lookup(k) = v when it returns: after the load check a slot that is not
\* OCCUPIED is left, and the probe does not come back to its start.
C20_InsertStoresLP ==
    \A k \in KeysLP : \A v \in Values :
        /\ LookupLP(InsertLP(StLP, k, v).table, k) = v
        /\ \E st \in {IF OverLoadLP(table, count) THEN ResizeLP(StLP) ELSE StLP} :
               /\ \E i \in 1..CapLP(st.table) : st.table[i].state # "OCCUPIED"
               /\ InsertScanLP(st.table, k, HashLP(st.table, k),
                               HashLP(st.table, k)) # -1

\* C20 witness: an insert has returned on a table that has grown, and the
\* next insert has to resize before it probes
C20_Witness ==
    /\ lpLast.op = "insert"
    /\ CapLP(table) > MaxInitCapLP
    /\ OverLoadLP(table, count)
    /\ \E i \in 1..CapLP(table) : table[i].state = "DELETED"

\* C21: an insert that makes the Funnel table grow keeps its contents: the
\* inserted key maps to the inserted value, every other key that lookup found
\* before is found with the same value, and capacity() has doubled once per
\* growth (it is the old capacity times a power of two).
C21_GrowthKeepsFN ==
    \A k \in KeysFN : \A v \in Values :
        \E st \in {InsertFN(StFN, k, v)} :
            st.total_size_ # total_size_ =>
                /\ LookupFN(st, k) = v
                /\ \A j \in LiveKeysFN \ {k} : LookupFN(st, j) = LookupFN(StFN, j)
                /\ \E n \in 1..MaxTotalFN : st.total_size_ = total_size_ * Pow(2, n)

\* C22: an insert with a legitimate key that doubles the block count of the
\* Iceberg table keeps the mapping: afterwards the inserted key maps to the
\* inserted value and every other inserted-and-not-removed key maps to its
\* last inserted value, wherever it was stored before the growth.
C22_GrowthKeepsIB ==
    0 \notin domainIB =>
        \A k \in domainIB : \A v \in Values :
            \E st \in {InsertIB(StIB, k, v)} :
                st.capacity_blocks # capacity_blocks =>
                    /\ st.capacity_blocks = 2 * capacity_blocks
                    /\ LookupIB(st, k) = Present(v)
                    /\ \A j \in LiveKeysIB \ {k} :
                           LookupIB(st, j) = Present(modelIB[j])

\* C23: Iceberg modify(k, v) with a legitimate key returns true exactly when
\* k is live; then lookup(k) is v afterwards, the number of entries is
\* unchanged and the lookup result of every other key is unchanged; when k is
\* not live it returns false and changes nothing.
C23_ModifyIB ==
    0 \notin domainIB =>
        \A k \in domainIB : \A v \in Values :
            \E r \in {ModifyIB(StIB, k, v)} :
                /\ r.ret = (k \in LiveKeysIB)
                /\ IF k \in LiveKeysIB
                   THEN /\ LookupIB(r.st, k) = Present(v)
                        /\ r.st.size = size
                        /\ \A j \in domainIB \ {k} :
                               LookupIB(r.st, j) = LookupIB(StIB, j)
                   ELSE r.st = StIB

(***************************************************************************)
(* Chained table: FixedListChainedHashTable<K, V>.  A fixed vector of      *)
(* capacity_ chains, each a list of (key, value) pairs in insertion order. *)
(***************************************************************************)
KeysCH == 0..MaxKeyCH

\* FixedListChainedHashTable(capacity)
NewCH(n) == [capacity_ |-> n, size_ |-> 0, table |-> [b \in 1..n |-> <<>>]]

\* hash(key): hasher(key) % capacity_
hashCH(st, key) == StdHash(key) % st.capacity_

\* the position, from i on, of the first pair of chain with key `key`; 0 if
\* there is none
RECURSIVE FindInChain(_, _, _)
FindInChain(chain, i, key) ==
    IF i > Len(chain) THEN 0
    ELSE IF chain[i][1] = key THEN i
    ELSE FindInChain(chain, i + 1, key)

\* the chain cut off at pair i
CutCH(chain, i) == SubSeq(chain, 1, i - 1)

\* chain.erase(it), it at pair i
EraseCH(chain, i) == SubSeq(chain, 1, i - 1) \o SubSeq(chain, i + 1, Len(chain))

\* insert when the scan of chain `index` stopped at pair i (0: no match)
InsertAtCH(st, index, i, key, value) ==
    IF i # 0
    THEN [st EXCEPT !.table[index + 1][i][2] = value]
    ELSE [st EXCEPT !.table[index + 1] = Append(@, <<key, value>>),
                    !.size_ = @ + 1]

\* insert(key, value)
InsertCH(st, key, value) ==
    InsertAtCH(st, hashCH(st, key),
               FindInChain(st.table[hashCH(st, key) + 1], 1, key), key, value)

LookupAtCH(st, index, i) ==
    IF i # 0 THEN Present(st.table[index + 1][i][2]) ELSE NullOpt

\* lookup(key)
LookupCH(st, key) ==
    LookupAtCH(st, hashCH(st, key),
               FindInChain(st.table[hashCH(st, key) + 1], 1, key))

UpdateAtCH(st, index, i, value) ==
    IF i # 0
    THEN [st |-> [st EXCEPT !.table[index + 1][i][2] = value], ret |-> TRUE]
    ELSE [st |-> st, ret |-> FALSE]

\* update(key, value)
UpdateCH(st, key, value) ==
    UpdateAtCH(st, hashCH(st, key),
               FindInChain(st.table[hashCH(st, key) + 1], 1, key), value)

RemoveAtCH(st, index, i) ==
    IF i # 0
    THEN [st |-> [st EXCEPT !.table[index + 1] = EraseCH(@, i),
                            !.size_ = @ - 1],
          ret |-> TRUE]
    ELSE [st |-> st, ret |-> FALSE]

\* remove(key)
RemoveCH(st, key) ==
    RemoveAtCH(st, hashCH(st, key),
               FindInChain(st.table[hashCH(st, key) + 1], 1, key))

\* size()
SizeCH(st) == st.size_

\* capacity()
CapacityCH(st) == st.capacity_

\* clear(): every chain cleared, size_ = 0
ClearCH(st) ==
    [st EXCEPT !.table = [b \in 1..st.capacity_ |-> <<>>], !.size_ = 0]

StCH == [capacity_ |-> capacityCH, size_ |-> sizeCH, table |-> tableCH]

SetCH(st) ==
    /\ capacityCH' = st.capacity_
    /\ sizeCH' = st.size_
    /\ tableCH' = st.table

LastCH(op, ret) == [op |-> op, ret |-> ret]

DoInsertCH ==
    \E k \in KeysCH, v \in Values :
        /\ SetCH(InsertCH(StCH, k, v))
        /\ modelCH' = SetModelIB(modelCH, k, v)
        /\ chLast' = LastCH("insert", TRUE)
        /\ UNCHANGED NotCH

DoLookupCH ==
    \E k \in KeysCH :
        /\ chLast' = LastCH("lookup", LookupCH(StCH, k).present)
        /\ UNCHANGED <<capacityCH, sizeCH, tableCH, modelCH, NotCH>>

DoUpdateCH ==
    \E k \in KeysCH, v \in Values :
        \E r \in {UpdateCH(StCH, k, v)} :
            /\ SetCH(r.st)
            /\ modelCH' = IF r.ret THEN SetModelIB(modelCH, k, v) ELSE modelCH
            /\ chLast' = LastCH("update", r.ret)
            /\ UNCHANGED NotCH

DoRemoveCH ==
    \E k \in KeysCH :
        \E r \in {RemoveCH(StCH, k)} :
            /\ SetCH(r.st)
            /\ modelCH' = DropModelIB(modelCH, k)
            /\ chLast' = LastCH("remove", r.ret)
            /\ UNCHANGED NotCH

DoClearCH ==
    /\ SetCH(ClearCH(StCH))
    /\ modelCH' = <<>>
    /\ chLast' = LastCH("clear", TRUE)
    /\ UNCHANGED NotCH

NextCH == DoInsertCH \/ DoLookupCH \/ DoUpdateCH \/ DoRemoveCH \/ DoClearCH

\* the keys the calls so far have inserted and not removed
LiveKeysCH == DOMAIN modelCH

\* C24: in the chained table remove(k) affects only k: it returns true and
\* decreases size() by one exactly when k is live, lookup(k) is absent
\* afterwards, every other key looks up as before, and the number of buckets
\* does not change.
C24_RemoveCH ==
    \A k \in KeysCH :
        \E r \in {RemoveCH(StCH, k)} :
            /\ r.ret = (k \in LiveKeysCH)
            /\ SizeCH(r.st) = SizeCH(StCH) - (IF k \in LiveKeysCH THEN 1 ELSE 0)
            /\ LookupCH(r.st, k) = NullOpt
            /\ \A j \in KeysCH \ {k} : LookupCH(r.st, j) = LookupCH(StCH, j)
            /\ CapacityCH(r.st) = CapacityCH(StCH)
            /\ Len(r.st.table) = Len(tableCH)

\* remove has just returned true in a table of one chain that still holds
\* two pairs: the removed key shared its chain with two other keys
C24_Witness ==
    /\ chLast = LastCH("remove", TRUE)
    /\ capacityCH = 1
    /\ Len(tableCH[1]) >= 2

\* the variant a state of SpecClear runs
RunsLP == Len(table) > 0
RunsCH == capacityCH > 0
RunsCK == capacityCK > 0
RunsPH == Len(buckets) > 0
RunsFN == total_size_ > 0
RunsEL == capacityEL > 0
RunsIP == Len(bucketsIP) > 0

\* clear() of the linear-probing table leaves an empty table of the same
\* capacity, is idempotent, and insert works on the cleared table
ClearedLP(c) ==
    /\ c.count = 0
    /\ \A k \in KeysLP : LookupLP(c.table, k) = Absent
    /\ CapLP(c.table) = CapLP(table)
    /\ ClearLP(c) = c
    /\ \A k \in KeysLP, v \in Values : LookupLP(InsertLP(c, k, v).table, k) = v

ClearedCH(c) ==
    /\ SizeCH(c) = 0
    /\ \A k \in KeysCH : LookupCH(c, k) = NullOpt
    /\ CapacityCH(c) = CapacityCH(StCH)
    /\ ClearCH(c) = c
    /\ \A k \in KeysCH, v \in Values :
           LookupCH(InsertCH(c, k, v), k) = Present(v)

ClearedCK(c) ==
    /\ SizeCK(c) = 0
    /\ \A k \in KeysCK : LookupCK(c, k) = NullOpt
    /\ c.capacity_ = capacityCK
    /\ ClearCK(c) = c
    /\ \A k \in KeysCK, v \in Values :
           LookupCK(InsertCK(c, k, v), k) = Present(v)

ClearedPH(c) ==
    /\ c.size_ = 0
    /\ \A k \in KeysPH : LookupPH(c, k) = Absent
    /\ Len(c.buckets) = Len(buckets)
    /\ ClearPH(c) = c
    /\ \A k \in KeysPH, v \in Values : LookupPH(InsertPH(c, k, v), k) = v

ClearedFN(c) ==
    /\ SizeFN(c) = 0
    /\ \A k \in KeysFN : LookupFN(c, k) = Absent
    /\ c.total_size_ = total_size_
    /\ ClearFN(c) = c
    /\ \A k \in KeysFN, v \in Values : LookupFN(InsertFN(c, k, v), k) = v

ClearedEL(c) ==
    /\ SizeEL(c) = 0
    /\ \A k \in KeysEL : LookupEL(c, k) = NullOpt
    /\ c.capacity_ = capacityEL
    /\ ClearEL(c) = c
    /\ \A k \in KeysEL, v \in Values :
           LookupEL(InsertEL(c, k, v), k) = Present(v)

\* capacity() of the indexed partition table is the constant n_
ClearedIP(c) ==
    /\ SizeIP(c) = 0
    /\ \A k \in KeysIP : LookupIP(c, k) = NullOpt
    /\ ClearIP(c) = c
    /\ \A k \in KeysIP, v \in Values :
           \E r \in {InsertIP(c, k, v)} :
               /\ r.ret = "done"
               /\ LookupIP(r.st, k) = Present(v)

DeltaNumsFN == {-1, 0, DeltaNum, DeltaDen, DeltaDen + 1}

\* 0 < delta < 1
InRangeFN(num) == 0 < num /\ num < DeltaDen

\* no table: the constructor has not returned one
NoTableFN == <<>>

\* FunnelHash(n, delta) has been called and has not run yet
CalledFN(n, num) == [n |-> n, num |-> num, outcome |-> "called", t |-> NoTableFN]

\* The constructor has no check of delta.  With delta outside (0, 1) its
\* arithmetic is undefined: the conversion of an infinite, a NaN or a
\* negative double to size_t for alpha_ and beta_ (delta <= 0, delta >= 2),
\* or the division by beta_ = 0 in buildLevels (1 <= delta < 2).  Outcomes
\* of a build: the process is killed or an exception leaves the constructor,
\* the constructor does not return, or it returns a table with alpha_ = 0
\* and one overflow level.
UndefinedFN(n) ==
    {[outcome |-> "aborted", t |-> NoTableFN],
     [outcome |-> "hangs", t |-> NoTableFN],
     [outcome |-> "created",
      t |-> LayOut([slots_ |-> <<>>, occupied_ |-> <<>>, total_size_ |-> n,
                    inserts_done_ |-> 0, alpha_ |-> 0],
                   <<IF n < DEFAULT_CAPACITY THEN DEFAULT_CAPACITY ELSE n>>)]}

\* the outcomes of FunnelHash(n, num / DeltaDen)
ConstructFN(n, num) ==
    IF InRangeFN(num) THEN {[outcome |-> "created", t |-> NewFN(n)]}
    ELSE UndefinedFN(n)

DoConstructFN ==
    /\ ctorFN.outcome = "called"
    /\ \E r \in ConstructFN(ctorFN.n, ctorFN.num) :
           ctorFN' = [ctorFN EXCEPT !.outcome = r.outcome, !.t = r.t]
    /\ UNCHANGED NotFC

NextFC == DoConstructFN

\* C26: no Funnel table is created with a delta outside the open interval
\* (0, 1): the constructor fails on such a delta.
C26_DeltaCheckedFN ==
    ctorFN.outcome = "created" => InRangeFN(ctorFN.num)

\* C27: in the linear-probing table remove(a) does not change what lookup(b),
\* update(b, v) and remove(b) do for any other key b: the probe for b passes
\* the DELETED slot remove(a) leaves and ends at the same slot, or at the
\* same EMPTY slot or full cycle, as before.
C27_RemoveFrameLP ==
    \A a \in KeysLP : \A b \in KeysLP \ {a} :
        \E r \in {RemoveLP(StLP, a).st} :
            /\ FindLP(r.table, b) = FindLP(table, b)
            /\ LookupLP(r.table, b) = LookupLP(table, b)
            /\ RemoveLP(r, b).ret = RemoveLP(StLP, b).ret
            /\ \A v \in Values :
                   /\ UpdateLP(r, b, v).ret = UpdateLP(StLP, b, v).ret
                   /\ LookupLP(UpdateLP(r, b, v).st.table, b)
                          = LookupLP(UpdateLP(StLP, b, v).st.table, b)

\* C27 witness: remove has just returned true, and a key that lookup finds
\* has a DELETED slot at the start of its probe path
C27_Witness ==
    /\ lpLast = LastLP("remove", TRUE)
    /\ \E b \in KeysLP :
           /\ table[HashLP(table, b) + 1].state = "DELETED"
           /\ LookupLP(table, b) # Absent

\* C28: a resize of the linear-probing table, as the insert into an
\* overloaded table runs it, doubles the number of slots exactly once, keeps
\* the value of every key lookup found and finds no other key, leaves size()
\* the number of those keys, and leaves no DELETED slot.
C28_ResizeLP ==
    OverLoadLP(table, count) =>
        \E r \in {ResizeLP(StLP)} :
            /\ CapLP(r.table) = 2 * CapLP(table)
            /\ \A k \in KeysLP : LookupLP(r.table, k) = LookupLP(table, k)
            /\ r.count = Cardinality({k \in KeysLP : LookupLP(table, k) # Absent})
            /\ \A i \in 1..CapLP(r.table) : r.table[i].state # "DELETED"

\* the occupied slots of table t that hold key
SlotsOfCK(t, key) == {i \in 1..Len(t) : t[i].occupied /\ t[i].key = key}

\* C29: in the Cuckoo table no key is held by an occupied slot of table1 and
\* an occupied slot of table2 at the same time, nor by two occupied slots of
\* the same table.
C29_UniqueCK ==
    \A k \in KeysCK :
        Cardinality(SlotsOfCK(table1, k)) + Cardinality(SlotsOfCK(table2, k)) <= 1

\* C29 witness: an insert has returned while a key sits in table2 and its
\* slot of table1 is not occupied, so that only the check of table2 keeps a
\* new insert of the key from storing it twice
C29_Witness ==
    /\ ckLast = LastCK("insert", TRUE)
    /\ \E k \in KeysCK :
           /\ HoldsCK(table2, hash2CK(k, capacityCK), k)
           /\ ~table1[hash1CK(k, capacityCK) + 1].occupied

\* capacity c is capacity b doubled once or more
DoubledCK(b, c) == \E n \in 1..4 : c = b * Pow(2, n)

\* insert(k, v) of a key the table does not hold, when the displacement loop
\* ends as e and the call ends in r: without growth when a round placed the
\* pair; otherwise the loop ran capacity_ rounds, the rehash doubles the
\* capacity, and the pair in hand at the end of the loop is in the table
AfterChainCK(k, v, e, r) ==
    IF e.placed THEN r = e.st
    ELSE /\ e.kicks = capacityCK
         /\ e.st.capacity_ = capacityCK
         /\ DoubledCK(capacityCK, RehashCK(e.st).capacity_)
         /\ r = InsertCK(RehashCK(e.st), e.key, e.value)
         /\ DoubledCK(capacityCK, r.capacity_)
         /\ LookupCK(r, e.key) = Present(e.value)
         /\ LookupCK(r, k) = Present(v)

\* C30: a Cuckoo insert grows the table only after a displacement chain of
\* capacity_ rounds that found no unoccupied slot; a growth doubles the
\* capacity; and the pair inserted after the growth is the pair the chain
\* left displaced.  An insert of a key the table holds never grows it.
C30_GrowthCK ==
    \A k \in KeysCK : \A v \in Values :
        IF LookupCK(StCK, k).present
        THEN InsertCK(StCK, k, v).capacity_ = capacityCK
        ELSE AfterChainCK(k, v, ChainCK(StCK, k, v, 0), InsertCK(StCK, k, v))

\* C30 witness: after an insert into a table of two or more slots per side,
\* the insert of some absent key exhausts its displacement chain with another
\* key in hand, and the call ends with the capacity doubled
C30_Witness ==
    /\ ckLast = LastCK("insert", TRUE)
    /\ capacityCK >= 2
    /\ \E k \in KeysCK :
           /\ ~LookupCK(StCK, k).present
           /\ ~ChainCK(StCK, k, 1, 0).placed
           /\ ChainCK(StCK, k, 1, 0).kicks = capacityCK
           /\ ChainCK(StCK, k, 1, 0).key # k
           /\ InsertCK(StCK, k, 1).capacity_ = 2 * capacityCK

\* the pairs a secondary table stores, in slot order
StoredST(b) == SelectSeq(b.table, LAMBDA e : e # NoPair)

\* a secondary table that was never built, or one whose stored entries are
\* counted by size, fill at most half of its capacity slots
HalfFullST(b) ==
    \/ b.capacity = 0 /\ b.table = <<>> /\ b.size = 0
    \/ /\ Len(b.table) = b.capacity
       /\ Len(StoredST(b)) = b.size
       /\ 2 * b.size <= b.capacity

\* the probe for key ends at a slot without a value or at a slot that holds
\* key before it has gone round the table
ProbeEndsST(b, key) ==
    b.capacity > 0 =>
        InsertScanST(b, key, HashST(b, key), HashST(b, key)) # -1

\* insert_or_modify(key, value) on b gives r: at most half full, rebuilt to
\* max(2 * n * n, 4) slots for its n entries when the capacity changed, and
\* the next probe for any key ends
InsertKeepsHalfST(b, r) ==
    /\ HalfFullST(r)
    /\ r.capacity > 0
    /\ r.capacity # b.capacity => r.capacity = Max(2 * r.size * r.size, 4)
    /\ \A k \in KeysPH : ProbeEndsST(r, k)

\* C31: a Perfect secondary table built or rebuilt with n entries has
\* max(2 * n * n, 4) slots; after every insert its stored entries are at
\* most half of its capacity, so every insert or lookup probe reaches an
\* empty or matching slot within one pass over the table.
C31_SecondarySizePH ==
    \A i \in 1..Len(buckets) :
        /\ HalfFullST(buckets[i])
        /\ \A k \in KeysPH : ProbeEndsST(buckets[i], k)
        /\ buckets[i].capacity > 0 =>
               /\ RebuildST(buckets[i]).capacity =
                      Max(2 * buckets[i].size * buckets[i].size, 4)
               /\ RebuildST(buckets[i]).size = buckets[i].size
               /\ HalfFullST(RebuildST(buckets[i]))
        /\ \A k \in KeysPH : \A v \in Values :
               InsertKeepsHalfST(buckets[i],
                                 InsertOrModifyST(buckets[i], k, v).b)

\* C31 witness: after an insert, a secondary table holds three entries in
\* the 18 slots its rebuild with three entries allocated
C31_Witness ==
    /\ phLast = LastPH("insert", TRUE)
    /\ \E i \in 1..Len(buckets) :
           /\ buckets[i].size = 3
           /\ buckets[i].capacity = 18
           /\ Len(StoredST(buckets[i])) = 3

\* the slots of st that are Occupied
OccupiedSlotsFN(st) == {p \in AllSlotsFN(st) : EntryFN(st, p).state = "Occupied"}

\* from table a to table b no entry has moved: the levels are the same, every
\* slot of a that is Occupied and is not slot gone holds the same key in b,
\* with the same value unless the key is key, and every key other than key
\* that lookup finds in a is found by lookup in b at the same slot
NotMovedFN(a, b, key, gone) ==
    /\ b.total_size_ = a.total_size_
    /\ AllSlotsFN(b) = AllSlotsFN(a)
    /\ \A p \in OccupiedSlotsFN(a) \ {gone} :
           /\ EntryFN(b, p).state = "Occupied"
           /\ EntryFN(b, p).kv[1] = EntryFN(a, p).kv[1]
           /\ EntryFN(a, p).kv[1] # key => EntryFN(b, p) = EntryFN(a, p)
    /\ \A j \in KeysFN \ {key} :
           FindFN(a, j) # NoSlot => FindFN(b, j) = FindFN(a, j)

\* the slot remove(key) frees in st, NoSlot when it frees none
RemovedSlotFN(st, key) == FindInSegments(st, RemoveSegments(st, key), 1, key)

\* C32: Funnel operations that do not trigger growth never move an existing
\* entry: after an insert or update that leaves capacity() alone and after a
\* remove, every slot that held an entry before, other than the one remove
\* freed, holds the entry of the same key, and at most one slot has changed.
C32_NoMoveFN ==
    \A k \in KeysFN :
        /\ \A v \in Values :
               /\ \E st \in {InsertFN(StFN, k, v)} :
                      st.total_size_ = total_size_ =>
                          /\ NotMovedFN(StFN, st, k, NoSlot)
                          /\ Cardinality({p \in AllSlotsFN(st) :
                                 EntryFN(st, p) # EntryFN(StFN, p)}) <= 1
               /\ \E r \in {UpdateFN(StFN, k, v)} :
                      r.st.total_size_ = total_size_ =>
                          NotMovedFN(StFN, r.st, k, NoSlot)
        /\ \E r \in {RemoveFN(StFN, k)} :
               /\ NotMovedFN(StFN, r.st, k, RemovedSlotFN(StFN, k))
               /\ r.ret => /\ EntryFN(StFN, RemovedSlotFN(StFN, k)).kv[1] = k
                           /\ EntryFN(r.st, RemovedSlotFN(StFN, k)).state = "Deleted"

\* C32 witness: a remove has freed a slot of a level in which a later slot
\* holds an entry, and an insert would place a new key without growth
C32_Witness ==
    /\ fnLast = LastFN("remove", TRUE)
    /\ \E p \in AllSlotsFN(StFN) : \E q \in OccupiedSlotsFN(StFN) :
           /\ EntryFN(StFN, p).state = "Deleted"
           /\ q[1] = p[1] /\ q[2] > p[2]
    /\ \E k \in KeysFN :
           /\ FindFN(StFN, k) = NoSlot
           /\ InsertFN(StFN, k, 1).total_size_ = total_size_

\* along path no Occupied or Deleted slot follows an Empty one
EmptyLastFN(st, path) ==
    \A i \in 1..Len(path) : \A j \in (i + 1)..Len(path) :
        EntryFN(st, path[i]).state = "Empty" =>
            EntryFN(st, path[j]).state = "Empty"

\* ... in every primary bucket of key, along its uniform probes and along
\* its scan of the second half of the overflow level
EmptyLastOnPathsFN(st, key) ==
    /\ \A s \in 1..Len(PrimarySegments(st, 0, key)) :
           EmptyLastFN(st, PrimarySegments(st, 0, key)[s])
    /\ EmptyLastFN(st, UniformPath(st, key))
    /\ EmptyLastFN(st, Flatten(FallbackSegments(st, key), 1))

\* key is live with value in st, and stays so over one more insert or remove
\* of another key
StaysFoundFN(st, key, value) ==
    /\ LookupFN(st, key) = value
    /\ \A j \in KeysFN \ {key} :
           /\ LookupFN(RemoveFN(st, j).st, key) = value
           /\ \A w \in Values : LookupFN(InsertFN(st, j, w), key) = value

\* C33: in every reachable Funnel state lookup(k) returns the value of every
\* live key k wherever insert placed it: a key just inserted is found with
\* its value, also after the next insert or remove of another key, and in
\* the primary buckets and along the overflow probes of every key no Occupied
\* or Deleted slot follows an Empty one.
C33_LookupFN ==
    \A k \in KeysFN :
        /\ EmptyLastOnPathsFN(StFN, k)
        /\ \A v \in Values : StaysFoundFN(InsertFN(StFN, k, v), k, v)

\* the level structure of st: the sizes of its primary levels followed by the
\* size of its overflow level
SizesOfFN(st) == [l \in 1..Len(st.slots_) |-> Len(st.slots_[l])]

\* C34: after a Funnel table has grown to the capacity budget N', its level
\* structure (number of primary levels, size of each, size of the overflow
\* level) is that of a table freshly constructed with budget N'.
C34_GrownAsFreshFN ==
    \A k \in KeysFN : \A v \in Values :
        \E st \in {InsertFN(StFN, k, v)} :
            st.total_size_ # total_size_ =>
                /\ st.alpha_ = NewFN(st.total_size_).alpha_
                /\ SizesOfFN(st) = SizesOfFN(NewFN(st.total_size_))

\* C35: in every reachable Funnel state, the state the constructor leaves
\* included, the slots of the primary levels and of the overflow level
\* together are as many as capacity() (total_size_, the load denominator and
\* the bound of the growth check).
C35_SlotsAreCapacityFN == SumSeq(SizesOfFN(StFN), 1) = total_size_

\* loadFactor() <= 0.7 in table st
LoadOkEL(st) == 10 * st.size_ <= 7 * st.capacity_

\* insert(key, value) takes st to r: the load is at most 0.7, and the
\* capacity is doubled once exactly when key was not found and one more entry
\* would have taken the load above 0.7, and is left alone otherwise
InsertGrowsOnceEL(st, key, r) ==
    /\ LoadOkEL(r)
    /\ Len(r.table) = r.capacity_
    /\ IF ~LookupEL(st, key).present
          /\ 10 * (st.size_ + 1) > 7 * st.capacity_
       THEN r.capacity_ = 2 * st.capacity_
       ELSE r.capacity_ = st.capacity_

\* C36: in the linear-probing ElasticHash loadFactor() is at most 0.7 after
\* every public operation: an insert that takes the load above 0.7 doubles
\* the capacity before it returns, once (the reinsertion of the rehash never
\* starts a second rehash), and update, remove and clear leave the capacity
\* alone and do not raise the load.
C36_LoadEL ==
    /\ LoadOkEL(StEL)
    /\ LoadOkEL(ClearEL(StEL)) /\ ClearEL(StEL).capacity_ = capacityEL
    /\ \A k \in KeysEL :
           /\ LoadOkEL(RemoveEL(StEL, k).st)
           /\ RemoveEL(StEL, k).st.capacity_ = capacityEL
           /\ \A v \in Values :
                  /\ InsertGrowsOnceEL(StEL, k, InsertEL(StEL, k, v))
                  /\ LoadOkEL(UpdateEL(StEL, k, v).st)
                  /\ UpdateEL(StEL, k, v).st.capacity_ = capacityEL

\* C36 witness: an insert has just doubled the capacity beyond every initial
\* capacity and reinserted the entries, which fill half of the new table
C36_Witness ==
    /\ elLast = LastEL("insert", TRUE)
    /\ capacityEL > MaxInitCapEL
    /\ 2 * sizeEL = capacityEL
    /\ \A i \in 1..capacityEL : tableEL[i].status # "Deleted"

\* the slots (1-based) of table st that are Occupied with key
SlotsOfEL(st, key) ==
    {i \in 1..Len(st.table) :
         st.table[i].status = "Occupied" /\ st.table[i].key = key}

\* C37: in the linear-probing ElasticHash at most one Occupied slot holds any
\* given key, and insert(k, v) on a live key k overwrites the slot of k, also
\* when a Deleted slot comes earlier on the probe path of k: size() and the
\* slot of k are unchanged and lookup(k) is v.
C37_OverwriteEL ==
    \A k \in KeysEL :
        /\ Cardinality(SlotsOfEL(StEL, k)) <= 1
        /\ k \in LiveKeysEL <=> SlotsOfEL(StEL, k) # {}
        /\ \A v \in Values :
               /\ Cardinality(SlotsOfEL(InsertEL(StEL, k, v), k)) = 1
               /\ k \in LiveKeysEL =>
                      /\ SizeEL(InsertEL(StEL, k, v)) = sizeEL
                      /\ SlotsOfEL(InsertEL(StEL, k, v), k) = SlotsOfEL(StEL, k)
                      /\ LookupEL(InsertEL(StEL, k, v), k) = Present(v)
                      /\ InsertEL(StEL, k, v).capacity_ = capacityEL

\* C37 witness: after an insert, a live key sits behind a Deleted slot of its
\* probe path: the slot at its home position is Deleted
C37_Witness ==
    /\ elLast = LastEL("insert", TRUE)
    /\ \E k \in LiveKeysEL :
           /\ tableEL[(StdHash(k) % capacityEL) + 1].status = "Deleted"
           /\ SlotsOfEL(StEL, k) # {}

(***************************************************************************)
(* The constructor of the indexed partitioned table,                       *)
(* IndexedPartitionHashTable(n, c = 2.0), as a call with its outcome, and  *)
(* bucket_index on the table it leaves.  The constructor works in doubles  *)
(* on logn = log(n_); the model has pow(logn, 2) and pow(logn, 3) in units *)
(* of 1 / LnScale, as the pair of the value rounded down and that plus     *)
(* one, and keeps every truncated result the pair allows.                  *)
(***************************************************************************)
LnScale == 100000

\* floor(LnScale * ln(n)^2) and floor(LnScale * ln(n)^3) for n = 1, 2, ...
LnSquared ==
    <<0, 48045, 120694, 192181, 259029, 321040, 378656, 432407, 482779,
      530189, 574990, 617476, 657896, 696462, 733353, 768724, 802709, 835424,
      866972, 897441, 926911, 955454, 983132, 1010002, 1036116, 1061519,
      1086254, 1110358, 1133868, 1156814, 1179226, 1201132, 1222556, 1243521,
      1264049, 1284160, 1303872, 1323203, 1342168, 1360783>>

LnCubed ==
    <<0, 33302, 132596, 266419, 416891, 575226, 736831, 899166, 1060775,
      1220807, 1378766, 1534370, 1687471, 1838004, 1985958, 2131357, 2274248,
      2414688, 2552746, 2688493, 2822003, 2953349, 3082605, 3209842, 3335129,
      3458532, 3580116, 3699942, 3818069, 3934553, 4049449, 4162808, 4274678,
      4385106, 4494137, 4601814, 4708177, 4813266, 4917116, 5019765>>

\* the least integer root: the largest q from q0 on with q^4 * LnScale <= x
RECURSIVE FourthRootFrom(_, _)
FourthRootFrom(x, q) ==
    IF (q + 1) * (q + 1) * (q + 1) * (q + 1) * LnScale <= x
    THEN FourthRootFrom(x, q + 1) ELSE q

\* static_cast<size_t>(n_ / pow(logn, 3)) when pow(logn, 3) is cu / LnScale
NumBucketsFor(n, cu) == (n * LnScale) \div cu

\* static_cast<size_t>(pow(logn, 3) + c * pow(logn, 2)) with c = 2.0
BucketCapacityFor(cu, sq) == (cu + 2 * sq) \div LnScale

\* static_cast<size_t>(sqrt(logn))
BtreeOrderFor(sq) == FourthRootFrom(sq, 0)

\* IndexedPartitionHashTable(n) has been called and has not run yet
CalledIP(n) ==
    [n |-> n, outcome |-> "called", num_buckets |-> 0, bucket_capacity |-> 0,
     btree_order_ |-> 0, key |-> -1, index |-> -1]

\* the tables the constructor can leave for n
ConstructIP(n) ==
    {[n |-> n, outcome |-> "created",
      num_buckets |-> NumBucketsFor(n, LnCubed[n] + d3),
      bucket_capacity |-> BucketCapacityFor(LnCubed[n] + d3, LnSquared[n] + d2),
      btree_order_ |-> BtreeOrderFor(LnSquared[n] + d2),
      key |-> -1, index |-> -1] : d2 \in {0, 1}, d3 \in {0, 1}}

\* bucket_index(key) = hasher_(key) % buckets_.size().  With no bucket the
\* remainder by zero is undefined: the process is killed by the division, or
\* the division yields a value that is no index of buckets_ (the hash value
\* itself where a division by zero gives quotient 0).
BucketIndexOutcomesIP(num_buckets, key) ==
    IF num_buckets > 0
    THEN {[outcome |-> "indexed", index |-> StdHash(key) % num_buckets]}
    ELSE {[outcome |-> "aborted", index |-> -1],
          [outcome |-> "indexed", index |-> StdHash(key)]}

DoConstructIP ==
    /\ ctorIP.outcome = "called"
    /\ ctorIP' \in ConstructIP(ctorIP.n)
    /\ UNCHANGED NotPC

DoBucketIndexIP ==
    /\ ctorIP.outcome = "created"
    /\ \E k \in KeysIP :
           \E r \in BucketIndexOutcomesIP(ctorIP.num_buckets, k) :
               ctorIP' = [ctorIP EXCEPT !.outcome = r.outcome, !.key = k,
                                        !.index = r.index]
    /\ UNCHANGED NotPC

NextPC == DoConstructIP \/ DoBucketIndexIP

\* C38: every constructed indexed partitioned table has at least one bucket,
\* for every n >= 2, the default 16 included, so that bucket_index(k) is an
\* index of buckets_ for every key.
C38_HasBucketsIP ==
    /\ ctorIP.outcome \in {"created", "indexed", "aborted"} =>
           ctorIP.num_buckets >= 1
    /\ ctorIP.outcome # "aborted"
    /\ ctorIP.outcome = "indexed" =>
           ctorIP.index \in 0..(ctorIP.num_buckets - 1)

(***************************************************************************)
(* Specifications: one per variant.                                        *)
(***************************************************************************)
\* A variant that a specification does not run keeps this in its variables.
AtRest == <<>>

\* Baseline1(initialCapacity): table.resize(initialCapacity), count = 0
InitLP ==
    /\ \E n \in 1..MaxInitCapLP : table = NewTableLP(n)
    /\ count = 0
    /\ lpLast = LastLP("new", TRUE)
    /\ buckets = AtRest /\ size_ = 0 /\ phLast = AtRest
    /\ slots_ = AtRest /\ occupied_ = AtRest /\ total_size_ = 0
    /\ inserts_done_ = 0 /\ alpha_ = 0 /\ fnLast = AtRest /\ hashes = AtRest
    /\ capacity_blocks = 0 /\ size = 0 /\ level1 = AtRest /\ level2 = AtRest
    /\ level3 = AtRest /\ ibLast = AtRest /\ domainIB = AtRest
    /\ modelIB = AtRest
    /\ bucketsSP = AtRest /\ sizeSP = 0 /\ spLast = AtRest
    /\ bucketsIP = AtRest /\ sizeIP = 0 /\ ipLast = AtRest
    /\ capacityCK = 0 /\ sizeCK = 0 /\ table1 = AtRest /\ table2 = AtRest
    /\ modelCK = AtRest /\ ckLast = AtRest
    /\ capacityEM = 0 /\ insertedEM = 0 /\ sizesEM = AtRest /\ tablesEM = AtRest
    /\ countsEM = AtRest /\ mixesEM = AtRest /\ emLast = AtRest
    /\ capacityEL = 0 /\ sizeEL = 0 /\ tableEL = AtRest /\ modelEL = AtRest
    /\ elLast = AtRest
    /\ capacityCH = 0 /\ sizeCH = 0 /\ tableCH = AtRest /\ modelCH = AtRest
    /\ chLast = AtRest
    /\ ctorFN = AtRest
    /\ ctorIP = AtRest

SpecLP == InitLP /\ [][NextLP]_vars

\* PerfectHash(initialBuckets): buckets.resize(bucketCount), size_ = 0
InitPH ==
    /\ \E n \in 1..MaxBucketsPH : buckets = [i \in 1..n |-> NewSecondary]
    /\ size_ = 0
    /\ phLast = LastPH("new", TRUE)
    /\ table = AtRest /\ count = 0 /\ lpLast = AtRest
    /\ slots_ = AtRest /\ occupied_ = AtRest /\ total_size_ = 0
    /\ inserts_done_ = 0 /\ alpha_ = 0 /\ fnLast = AtRest /\ hashes = AtRest
    /\ capacity_blocks = 0 /\ size = 0 /\ level1 = AtRest /\ level2 = AtRest
    /\ level3 = AtRest /\ ibLast = AtRest /\ domainIB = AtRest
    /\ modelIB = AtRest
    /\ bucketsSP = AtRest /\ sizeSP = 0 /\ spLast = AtRest
    /\ bucketsIP = AtRest /\ sizeIP = 0 /\ ipLast = AtRest
    /\ capacityCK = 0 /\ sizeCK = 0 /\ table1 = AtRest /\ table2 = AtRest
    /\ modelCK = AtRest /\ ckLast = AtRest
    /\ capacityEM = 0 /\ insertedEM = 0 /\ sizesEM = AtRest /\ tablesEM = AtRest
    /\ countsEM = AtRest /\ mixesEM = AtRest /\ emLast = AtRest
    /\ capacityEL = 0 /\ sizeEL = 0 /\ tableEL = AtRest /\ modelEL = AtRest
    /\ elLast = AtRest
    /\ capacityCH = 0 /\ sizeCH = 0 /\ tableCH = AtRest /\ modelCH = AtRest
    /\ chLast = AtRest
    /\ ctorFN = AtRest
    /\ ctorIP = AtRest

SpecPerfect == InitPH /\ [][NextPH]_vars

\* FunnelHash(n)
InitFN ==
    /\ \E st \in {NewFN(n) : n \in 1..MaxInitFN} :
           /\ slots_ = st.slots_
           /\ occupied_ = st.occupied_
           /\ total_size_ = st.total_size_
           /\ inserts_done_ = st.inserts_done_
           /\ alpha_ = st.alpha_
    /\ fnLast = LastFN("new", TRUE)
    /\ hashes = HashTables
    /\ table = AtRest /\ count = 0 /\ lpLast = AtRest
    /\ buckets = AtRest /\ size_ = 0 /\ phLast = AtRest
    /\ capacity_blocks = 0 /\ size = 0 /\ level1 = AtRest /\ level2 = AtRest
    /\ level3 = AtRest /\ ibLast = AtRest /\ domainIB = AtRest
    /\ modelIB = AtRest
    /\ bucketsSP = AtRest /\ sizeSP = 0 /\ spLast = AtRest
    /\ bucketsIP = AtRest /\ sizeIP = 0 /\ ipLast = AtRest
    /\ capacityCK = 0 /\ sizeCK = 0 /\ table1 = AtRest /\ table2 = AtRest
    /\ modelCK = AtRest /\ ckLast = AtRest
    /\ capacityEM = 0 /\ insertedEM = 0 /\ sizesEM = AtRest /\ tablesEM = AtRest
    /\ countsEM = AtRest /\ mixesEM = AtRest /\ emLast = AtRest
    /\ capacityEL = 0 /\ sizeEL = 0 /\ tableEL = AtRest /\ modelEL = AtRest
    /\ elLast = AtRest
    /\ capacityCH = 0 /\ sizeCH = 0 /\ tableCH = AtRest /\ modelCH = AtRest
    /\ chLast = AtRest
    /\ ctorFN = AtRest
    /\ ctorIP = AtRest

SpecFunnel == InitFN /\ [][NextFN]_vars

\* IcebergHash(init_blocks), used with the legitimate keys or with the whole
\* key type
InitIB ==
    /\ \E st \in {NewIB(n) : n \in 1..MaxInitBlocksIB} :
           /\ capacity_blocks = st.capacity_blocks
           /\ size = st.size
           /\ level1 = st.level1
           /\ level2 = st.level2
           /\ level3 = st.level3
    /\ ibLast = LastIB("new", TRUE)
    /\ domainIB \in {KeysIB, Keys0IB}
    /\ modelIB = <<>>
    /\ table = AtRest /\ count = 0 /\ lpLast = AtRest
    /\ buckets = AtRest /\ size_ = 0 /\ phLast = AtRest
    /\ slots_ = AtRest /\ occupied_ = AtRest /\ total_size_ = 0
    /\ inserts_done_ = 0 /\ alpha_ = 0 /\ fnLast = AtRest /\ hashes = AtRest
    /\ bucketsSP = AtRest /\ sizeSP = 0 /\ spLast = AtRest
    /\ bucketsIP = AtRest /\ sizeIP = 0 /\ ipLast = AtRest
    /\ capacityCK = 0 /\ sizeCK = 0 /\ table1 = AtRest /\ table2 = AtRest
    /\ modelCK = AtRest /\ ckLast = AtRest
    /\ capacityEM = 0 /\ insertedEM = 0 /\ sizesEM = AtRest /\ tablesEM = AtRest
    /\ countsEM = AtRest /\ mixesEM = AtRest /\ emLast = AtRest
    /\ capacityEL = 0 /\ sizeEL = 0 /\ tableEL = AtRest /\ modelEL = AtRest
    /\ elLast = AtRest
    /\ capacityCH = 0 /\ sizeCH = 0 /\ tableCH = AtRest /\ modelCH = AtRest
    /\ chLast = AtRest
    /\ ctorFN = AtRest
    /\ ctorIP = AtRest

SpecIceberg == InitIB /\ [][NextIB]_vars

\* SlowPartitionHashTable()
InitSP ==
    /\ bucketsSP = NewSP.buckets
    /\ sizeSP = NewSP.size
    /\ spLast = LastSP("new", TRUE)
    /\ table = AtRest /\ count = 0 /\ lpLast = AtRest
    /\ buckets = AtRest /\ size_ = 0 /\ phLast = AtRest
    /\ slots_ = AtRest /\ occupied_ = AtRest /\ total_size_ = 0
    /\ inserts_done_ = 0 /\ alpha_ = 0 /\ fnLast = AtRest /\ hashes = AtRest
    /\ capacity_blocks = 0 /\ size = 0 /\ level1 = AtRest /\ level2 = AtRest
    /\ level3 = AtRest /\ ibLast = AtRest /\ domainIB = AtRest
    /\ modelIB = AtRest
    /\ bucketsIP = AtRest /\ sizeIP = 0 /\ ipLast = AtRest
    /\ capacityCK = 0 /\ sizeCK = 0 /\ table1 = AtRest /\ table2 = AtRest
    /\ modelCK = AtRest /\ ckLast = AtRest
    /\ capacityEM = 0 /\ insertedEM = 0 /\ sizesEM = AtRest /\ tablesEM = AtRest
    /\ countsEM = AtRest /\ mixesEM = AtRest /\ emLast = AtRest
    /\ capacityEL = 0 /\ sizeEL = 0 /\ tableEL = AtRest /\ modelEL = AtRest
    /\ elLast = AtRest
    /\ capacityCH = 0 /\ sizeCH = 0 /\ tableCH = AtRest /\ modelCH = AtRest
    /\ chLast = AtRest
    /\ ctorFN = AtRest
    /\ ctorIP = AtRest

SpecSlowPartition == InitSP /\ [][NextSP]_vars

\* IndexedPartitionHashTable(n, c)
InitIP ==
    /\ bucketsIP = NewIP.buckets
    /\ sizeIP = NewIP.size
    /\ ipLast = LastIP("new", TRUE)
    /\ table = AtRest /\ count = 0 /\ lpLast = AtRest
    /\ buckets = AtRest /\ size_ = 0 /\ phLast = AtRest
    /\ slots_ = AtRest /\ occupied_ = AtRest /\ total_size_ = 0
    /\ inserts_done_ = 0 /\ alpha_ = 0 /\ fnLast = AtRest /\ hashes = AtRest
    /\ capacity_blocks = 0 /\ size = 0 /\ level1 = AtRest /\ level2 = AtRest
    /\ level3 = AtRest /\ ibLast = AtRest /\ domainIB = AtRest
    /\ modelIB = AtRest
    /\ bucketsSP = AtRest /\ sizeSP = 0 /\ spLast = AtRest
    /\ capacityCK = 0 /\ sizeCK = 0 /\ table1 = AtRest /\ table2 = AtRest
    /\ modelCK = AtRest /\ ckLast = AtRest
    /\ capacityEM = 0 /\ insertedEM = 0 /\ sizesEM = AtRest /\ tablesEM = AtRest
    /\ countsEM = AtRest /\ mixesEM = AtRest /\ emLast = AtRest
    /\ capacityEL = 0 /\ sizeEL = 0 /\ tableEL = AtRest /\ modelEL = AtRest
    /\ elLast = AtRest
    /\ capacityCH = 0 /\ sizeCH = 0 /\ tableCH = AtRest /\ modelCH = AtRest
    /\ chLast = AtRest
    /\ ctorFN = AtRest
    /\ ctorIP = AtRest

SpecIndexedPartition == InitIP /\ [][NextIP]_vars

\* IndexedPartitionHashTable(n, c) with the wider buckets
InitIR ==
    /\ bucketsIP = NewOfIP(WideCapacityIP).buckets
    /\ sizeIP = NewOfIP(WideCapacityIP).size
    /\ ipLast = LastIP("new", TRUE)
    /\ table = AtRest /\ count = 0 /\ lpLast = AtRest
    /\ buckets = AtRest /\ size_ = 0 /\ phLast = AtRest
    /\ slots_ = AtRest /\ occupied_ = AtRest /\ total_size_ = 0
    /\ inserts_done_ = 0 /\ alpha_ = 0 /\ fnLast = AtRest /\ hashes = AtRest
    /\ capacity_blocks = 0 /\ size = 0 /\ level1 = AtRest /\ level2 = AtRest
    /\ level3 = AtRest /\ ibLast = AtRest /\ domainIB = AtRest
    /\ modelIB = AtRest
    /\ bucketsSP = AtRest /\ sizeSP = 0 /\ spLast = AtRest
    /\ capacityCK = 0 /\ sizeCK = 0 /\ table1 = AtRest /\ table2 = AtRest
    /\ modelCK = AtRest /\ ckLast = AtRest
    /\ capacityEM = 0 /\ insertedEM = 0 /\ sizesEM = AtRest /\ tablesEM = AtRest
    /\ countsEM = AtRest /\ mixesEM = AtRest /\ emLast = AtRest
    /\ capacityEL = 0 /\ sizeEL = 0 /\ tableEL = AtRest /\ modelEL = AtRest
    /\ elLast = AtRest
    /\ capacityCH = 0 /\ sizeCH = 0 /\ tableCH = AtRest /\ modelCH = AtRest
    /\ chLast = AtRest
    /\ ctorFN = AtRest
    /\ ctorIP = AtRest

SpecIndexedRemove == InitIR /\ [][NextIR]_vars

\* CuckooHash(initial_capacity)
InitCK ==
    /\ \E st \in {NewCK(n) : n \in 1..MaxInitCapCK} : 
           /\ capacityCK = st.capacity_
           /\ sizeCK = st.size_
           /\ table1 = st.table1
           /\ table2 = st.table2
    /\ modelCK = <<>>
    /\ ckLast = LastCK("new", TRUE)
    /\ table = AtRest /\ count = 0 /\ lpLast = AtRest
    /\ buckets = AtRest /\ size_ = 0 /\ phLast = AtRest
    /\ slots_ = AtRest /\ occupied_ = AtRest /\ total_size_ = 0
    /\ inserts_done_ = 0 /\ alpha_ = 0 /\ fnLast = AtRest /\ hashes = AtRest
    /\ capacity_blocks = 0 /\ size = 0 /\ level1 = AtRest /\ level2 = AtRest
    /\ level3 = AtRest /\ ibLast = AtRest /\ domainIB = AtRest
    /\ modelIB = AtRest
    /\ bucketsSP = AtRest /\ sizeSP = 0 /\ spLast = AtRest
    /\ bucketsIP = AtRest /\ sizeIP = 0 /\ ipLast = AtRest
    /\ capacityEM = 0 /\ insertedEM = 0 /\ sizesEM = AtRest /\ tablesEM = AtRest
    /\ countsEM = AtRest /\ mixesEM = AtRest /\ emLast = AtRest
    /\ capacityEL = 0 /\ sizeEL = 0 /\ tableEL = AtRest /\ modelEL = AtRest
    /\ elLast = AtRest
    /\ capacityCH = 0 /\ sizeCH = 0 /\ tableCH = AtRest /\ modelCH = AtRest
    /\ chLast = AtRest
    /\ ctorFN = AtRest
    /\ ctorIP = AtRest

SpecCuckoo == InitCK /\ [][NextCK]_vars

\* ElasticHash(initial_capacity, delta_thresh) of the multi-level table
InitEM ==
    /\ \E st \in {NewEM(n) : n \in 1..MaxInitCapEM} :
           /\ capacityEM = st.capacity
           /\ insertedEM = st.inserted
           /\ sizesEM = st.sizes
           /\ tablesEM = st.tables
           /\ countsEM = st.occupied_counts
    /\ mixesEM = MixTables
    /\ emLast = LastEM("new", TRUE)
    /\ table = AtRest /\ count = 0 /\ lpLast = AtRest
    /\ buckets = AtRest /\ size_ = 0 /\ phLast = AtRest
    /\ slots_ = AtRest /\ occupied_ = AtRest /\ total_size_ = 0
    /\ inserts_done_ = 0 /\ alpha_ = 0 /\ fnLast = AtRest /\ hashes = AtRest
    /\ capacity_blocks = 0 /\ size = 0 /\ level1 = AtRest /\ level2 = AtRest
    /\ level3 = AtRest /\ ibLast = AtRest /\ domainIB = AtRest
    /\ modelIB = AtRest
    /\ bucketsSP = AtRest /\ sizeSP = 0 /\ spLast = AtRest
    /\ bucketsIP = AtRest /\ sizeIP = 0 /\ ipLast = AtRest
    /\ capacityCK = 0 /\ sizeCK = 0 /\ table1 = AtRest /\ table2 = AtRest
    /\ modelCK = AtRest /\ ckLast = AtRest
    /\ capacityEL = 0 /\ sizeEL = 0 /\ tableEL = AtRest /\ modelEL = AtRest
    /\ elLast = AtRest
    /\ capacityCH = 0 /\ sizeCH = 0 /\ tableCH = AtRest /\ modelCH = AtRest
    /\ chLast = AtRest
    /\ ctorFN = AtRest
    /\ ctorIP = AtRest

SpecElasticLevels == InitEM /\ [][NextEM]_vars

\* ElasticHash(initial_capacity) of the linear-probing elastic table
InitEL ==
    /\ \E st \in {NewEL(n) : n \in 1..MaxInitCapEL} :
           /\ capacityEL = st.capacity_
           /\ sizeEL = st.size_
           /\ tableEL = st.table
    /\ modelEL = <<>>
    /\ elLast = LastEL("new", TRUE)
    /\ table = AtRest /\ count = 0 /\ lpLast = AtRest
    /\ buckets = AtRest /\ size_ = 0 /\ phLast = AtRest
    /\ slots_ = AtRest /\ occupied_ = AtRest /\ total_size_ = 0
    /\ inserts_done_ = 0 /\ alpha_ = 0 /\ fnLast = AtRest /\ hashes = AtRest
    /\ capacity_blocks = 0 /\ size = 0 /\ level1 = AtRest /\ level2 = AtRest
    /\ level3 = AtRest /\ ibLast = AtRest /\ domainIB = AtRest
    /\ modelIB = AtRest
    /\ bucketsSP = AtRest /\ sizeSP = 0 /\ spLast = AtRest
    /\ bucketsIP = AtRest /\ sizeIP = 0 /\ ipLast = AtRest
    /\ capacityCK = 0 /\ sizeCK = 0 /\ table1 = AtRest /\ table2 = AtRest
    /\ modelCK = AtRest /\ ckLast = AtRest
    /\ capacityEM = 0 /\ insertedEM = 0 /\ sizesEM = AtRest /\ tablesEM = AtRest
    /\ countsEM = AtRest /\ mixesEM = AtRest /\ emLast = AtRest
    /\ capacityCH = 0 /\ sizeCH = 0 /\ tableCH = AtRest /\ modelCH = AtRest
    /\ chLast = AtRest
    /\ ctorFN = AtRest
    /\ ctorIP = AtRest

SpecElastic == InitEL /\ [][NextEL]_vars

\* FixedListChainedHashTable(capacity)
InitCH ==
    /\ \E st \in {NewCH(n) : n \in 1..MaxCapCH} :
           /\ capacityCH = st.capacity_
           /\ sizeCH = st.size_
           /\ tableCH = st.table
    /\ modelCH = <<>>
    /\ chLast = LastCH("new", TRUE)
    /\ table = AtRest /\ count = 0 /\ lpLast = AtRest
    /\ buckets = AtRest /\ size_ = 0 /\ phLast = AtRest
    /\ slots_ = AtRest /\ occupied_ = AtRest /\ total_size_ = 0
    /\ inserts_done_ = 0 /\ alpha_ = 0 /\ fnLast = AtRest /\ hashes = AtRest
    /\ capacity_blocks = 0 /\ size = 0 /\ level1 = AtRest /\ level2 = AtRest
    /\ level3 = AtRest /\ ibLast = AtRest /\ domainIB = AtRest
    /\ modelIB = AtRest
    /\ bucketsSP = AtRest /\ sizeSP = 0 /\ spLast = AtRest
    /\ bucketsIP = AtRest /\ sizeIP = 0 /\ ipLast = AtRest
    /\ capacityCK = 0 /\ sizeCK = 0 /\ table1 = AtRest /\ table2 = AtRest
    /\ modelCK = AtRest /\ ckLast = AtRest
    /\ capacityEM = 0 /\ insertedEM = 0 /\ sizesEM = AtRest /\ tablesEM = AtRest
    /\ countsEM = AtRest /\ mixesEM = AtRest /\ emLast = AtRest
    /\ capacityEL = 0 /\ sizeEL = 0 /\ tableEL = AtRest /\ modelEL = AtRest
    /\ elLast = AtRest
    /\ ctorFN = AtRest
    /\ ctorIP = AtRest

SpecChain == InitCH /\ [][NextCH]_vars

\* every variant with a clear(): one of them is constructed, then insert,
\* remove and clear are called on it
InitClear ==
    InitLP \/ InitCH \/ InitCK \/ InitPH \/ InitFN \/ InitEL \/ InitIP

NextClear ==
    \/ RunsLP /\ DoInsertLP
    \/ RunsLP /\ DoRemoveLP
    \/ RunsLP /\ DoClearLP
    \/ RunsCH /\ DoInsertCH
    \/ RunsCH /\ DoRemoveCH
    \/ RunsCH /\ DoClearCH
    \/ RunsCK /\ DoInsertCK
    \/ RunsCK /\ DoRemoveCK
    \/ RunsCK /\ DoClearCK
    \/ RunsPH /\ DoInsertPH
    \/ RunsPH /\ DoRemovePH
    \/ RunsPH /\ DoClearPH
    \/ RunsFN /\ DoInsertFN
    \/ RunsFN /\ DoRemoveFN
    \/ RunsFN /\ DoClearFN
    \/ RunsEL /\ DoInsertEL
    \/ RunsEL /\ DoRemoveEL
    \/ RunsEL /\ DoClearEL
    \/ RunsIP /\ DoInsertIP
    \/ RunsIP /\ DoRemoveIP
    \/ RunsIP /\ DoClearIP

SpecClear == InitClear /\ [][NextClear]_vars

\* a call FunnelHash(n, delta)
InitFC ==
    /\ ctorFN \in {CalledFN(n, num) : n \in 1..MaxCtorFN, num \in DeltaNumsFN}
    /\ table = AtRest /\ count = 0 /\ lpLast = AtRest
    /\ buckets = AtRest /\ size_ = 0 /\ phLast = AtRest
    /\ slots_ = AtRest /\ occupied_ = AtRest /\ total_size_ = 0
    /\ inserts_done_ = 0 /\ alpha_ = 0 /\ fnLast = AtRest /\ hashes = AtRest
    /\ capacity_blocks = 0 /\ size = 0 /\ level1 = AtRest /\ level2 = AtRest
    /\ level3 = AtRest /\ ibLast = AtRest /\ domainIB = AtRest
    /\ modelIB = AtRest
    /\ bucketsSP = AtRest /\ sizeSP = 0 /\ spLast = AtRest
    /\ bucketsIP = AtRest /\ sizeIP = 0 /\ ipLast = AtRest
    /\ capacityCK = 0 /\ sizeCK = 0 /\ table1 = AtRest /\ table2 = AtRest
    /\ modelCK = AtRest /\ ckLast = AtRest
    /\ capacityEM = 0 /\ insertedEM = 0 /\ sizesEM = AtRest /\ tablesEM = AtRest
    /\ countsEM = AtRest /\ mixesEM = AtRest /\ emLast = AtRest
    /\ capacityEL = 0 /\ sizeEL = 0 /\ tableEL = AtRest /\ modelEL = AtRest
    /\ elLast = AtRest
    /\ capacityCH = 0 /\ sizeCH = 0 /\ tableCH = AtRest /\ modelCH = AtRest
    /\ chLast = AtRest
    /\ ctorIP = AtRest

SpecFunnelCtor == InitFC /\ [][NextFC]_vars

\* a call IndexedPartitionHashTable(n) with the default c = 2.0
InitPC ==
    /\ ctorIP \in {CalledIP(n) : n \in 2..MaxCtorIP}
    /\ table = AtRest /\ count = 0 /\ lpLast = AtRest
    /\ buckets = AtRest /\ size_ = 0 /\ phLast = AtRest
    /\ slots_ = AtRest /\ occupied_ = AtRest /\ total_size_ = 0
    /\ inserts_done_ = 0 /\ alpha_ = 0 /\ fnLast = AtRest /\ hashes = AtRest
    /\ capacity_blocks = 0 /\ size = 0 /\ level1 = AtRest /\ level2 = AtRest
    /\ level3 = AtRest /\ ibLast = AtRest /\ domainIB = AtRest
    /\ modelIB = AtRest
    /\ bucketsSP = AtRest /\ sizeSP = 0 /\ spLast = AtRest
    /\ bucketsIP = AtRest /\ sizeIP = 0 /\ ipLast = AtRest
    /\ capacityCK = 0 /\ sizeCK = 0 /\ table1 = AtRest /\ table2 = AtRest
    /\ modelCK = AtRest /\ ckLast = AtRest
    /\ capacityEM = 0 /\ insertedEM = 0 /\ sizesEM = AtRest /\ tablesEM = AtRest
    /\ countsEM = AtRest /\ mixesEM = AtRest /\ emLast = AtRest
    /\ capacityEL = 0 /\ sizeEL = 0 /\ tableEL = AtRest /\ modelEL = AtRest
    /\ elLast = AtRest
    /\ capacityCH = 0 /\ sizeCH = 0 /\ tableCH = AtRest /\ modelCH = AtRest
    /\ chLast = AtRest
    /\ ctorFN = AtRest

SpecPartitionCtor == InitPC /\ [][NextPC]_vars

====
